---- MODULE Spec2Model ----
(***************************************************************************)
(* Ingredient identity resolution of mcp_grocy/tools.py: the colour,       *)
(* maltster and yeast extractors, _match_yeast,                            *)
(* _find_ingredient_substitutes and _smart_match_ingredient, driven by a   *)
(* caller that fetches a product catalog and resolves ingredient queries.  *)
(*                                                                         *)
(* A Python str is the sequence of its one-character strings; a Python     *)
(* float is an exact rational <<numerator, denominator>> in lowest terms;  *)
(* None is the empty sequence where the code only tests truthiness.        *)
(***************************************************************************)
EXTENDS Integers, Sequences, FiniteSets, TLC

(***************************************************************************)
(* Numbers                                                                 *)
(***************************************************************************)
Abs(n) == IF n < 0 THEN -n ELSE n

RECURSIVE GCD(_, _)
GCD(a, b) == IF b = 0 THEN a ELSE GCD(b, a % b)

\* the rational n/d (d > 0) in lowest terms
Rat(n, d) ==
    LET g == GCD(Abs(n), d)
    IN  IF g = 0 THEN <<0, 1>> ELSE <<n \div g, d \div g>>

Num(k) == <<k, 1>>
RAdd(a, b) == Rat(a[1] * b[2] + b[1] * a[2], a[2] * b[2])
RSub(a, b) == Rat(a[1] * b[2] - b[1] * a[2], a[2] * b[2])
RMul(a, b) == Rat(a[1] * b[1], a[2] * b[2])
\* a / b for b > 0
RDiv(a, b) == Rat(a[1] * b[2], a[2] * b[1])
RLe(a, b) == a[1] * b[2] <= b[1] * a[2]
RLt(a, b) == a[1] * b[2] < b[1] * a[2]
RMax(a, b) == IF RLe(a, b) THEN b ELSE a

(***************************************************************************)
(* Strings                                                                 *)
(***************************************************************************)
Chars(s) == [i \in 1..Len(s) |-> SubSeq(s, i, i)]

UpperAlpha == Chars("ABCDEFGHIJKLMNOPQRSTUVWXYZ")
LowerAlpha == Chars("abcdefghijklmnopqrstuvwxyz")
Digits == Chars("0123456789")

UpperSet == {UpperAlpha[i] : i \in 1..26}
LowerSet == {LowerAlpha[i] : i \in 1..26}
DigitSet == {Digits[i] : i \in 1..10}
\* \w of the re module
WordCharSet == UpperSet \cup LowerSet \cup DigitSet \cup {"_"}

IsUpper(c) == c \in UpperSet
IsLower(c) == c \in LowerSet
IsDigit(c) == c \in DigitSet
IsSpace(c) == c \in {" ", "\t", "\n"}
IsWordChar(c) == c \in WordCharSet

DigitValues == [c \in DigitSet |-> (CHOOSE i \in 1..10 : Digits[i] = c) - 1]
DigitVal(c) == DigitValues[c]

ToLower == [c \in UpperSet |-> LowerAlpha[CHOOSE i \in 1..26 : UpperAlpha[i] = c]]
ToUpper == [c \in LowerSet |-> UpperAlpha[CHOOSE i \in 1..26 : LowerAlpha[i] = c]]
LowerChar(c) == IF c \in UpperSet THEN ToLower[c] ELSE c
UpperChar(c) == IF c \in LowerSet THEN ToUpper[c] ELSE c

\* str.lower(), str.upper()
StrLower(s) == [i \in 1..Len(s) |-> LowerChar(s[i])]
StrUpper(s) == [i \in 1..Len(s) |-> UpperChar(s[i])]

\* s[i:] starts with lit
StartsAt(s, i, lit) ==
    /\ i >= 1
    /\ i + Len(lit) - 1 <= Len(s)
    /\ \A k \in 1..Len(lit) : s[i + k - 1] = lit[k]

\* sub in s
StrIn(sub, s) == \E i \in 1..(Len(s) - Len(sub) + 1) : StartsAt(s, i, sub)

\* str.replace(old, " ") for a one-character old
ReplaceChar(s, old, new) == [i \in 1..Len(s) |-> IF s[i] = old THEN new ELSE s[i]]

\* set(s.split()): the maximal runs of non-whitespace characters
SplitSet(s) ==
    LET starts == {i \in 1..Len(s) : ~IsSpace(s[i]) /\ (i = 1 \/ IsSpace(s[i - 1]))}
        endOf(i) == CHOOSE j \in i..Len(s) :
                        /\ \A k \in i..j : ~IsSpace(s[k])
                        /\ (j = Len(s) \/ IsSpace(s[j + 1]))
    IN  {SubSeq(s, i, endOf(i)) : i \in starts}

\* int(digits)
RECURSIVE IntOf(_)
IntOf(ds) == IF Len(ds) = 0 THEN 0
             ELSE 10 * IntOf(SubSeq(ds, 1, Len(ds) - 1)) + DigitVal(ds[Len(ds)])

\* one-element stand-ins for the non-ASCII characters of the patterns
DEGREE == "deg"
ENDASH == "ndash"
ACIRC == "acirc"

None == <<>>

Min(S) == CHOOSE x \in S : \A y \in S : x <= y

\* the leftmost of the places a pattern matches at, 0 when it matches nowhere
Leftmost(hits) == IF hits = {} THEN 0 ELSE Min(hits)

\* the character left of gap p is a word character (gap p lies after p characters)
WordAt(s, k) == k >= 1 /\ k <= Len(s) /\ IsWordChar(s[k])
\* \b at gap p
WordBoundary(s, p) == WordAt(s, p) # WordAt(s, p + 1)

\* the first index >= i that holds no whitespace (Len(s) + 1 when none)
SkipSpaces(s, i) ==
    Min({j \in i..(Len(s) + 1) : j = Len(s) + 1 \/ ~IsSpace(s[j])})
\* the same for [:\s]*
SkipColonSpaces(s, i) ==
    Min({j \in i..(Len(s) + 1) : j = Len(s) + 1 \/ ~(IsSpace(s[j]) \/ s[j] = ":")})
\* the last index of the run of digits that starts at i (i - 1 when s[i] is no digit)
DigitRunEnd(s, i) ==
    Min({e \in (i - 1)..Len(s) : e = Len(s) \/ ~IsDigit(s[e + 1])})
\* (\d+) at i
DigitsAt(s, i) == SubSeq(s, i, DigitRunEnd(s, i))
\* the indices where a run of digits starts
RunStarts(s) == {i \in 1..Len(s) : IsDigit(s[i]) /\ (i = 1 \/ ~IsDigit(s[i - 1]))}
IsDash(s, j) == j <= Len(s) /\ s[j] \in {"-", ENDASH}
\* the indices where the literal occurs
Occurrences(s, lit) == {i \in 1..Len(s) : StartsAt(s, i, lit)}

(***************************************************************************)
(* Malt colour                                                             *)
(***************************************************************************)
LOVIBOND_EBC_FACTOR == <<263, 100>>

_lovibond_to_ebc(lovibond) == RMul(lovibond, LOVIBOND_EBC_FACTOR)

\* the division by the SRM factor 1.97 in place of 2.63
EbcToLovibondSrm(ebc) == RDiv(ebc, <<197, 100>>)

_ebc_to_lovibond(ebc) == RDiv(ebc, LOVIBOND_EBC_FACTOR)

EBC == Chars("EBC")

\* match.groups() of a pattern with one group of digits that matched at i (0: no match)
OneGroup(text, i) == IF i = 0 THEN None ELSE <<DigitsAt(text, i)>>

\* r'(\d+)\s*°?\s*L\b': the groups of the leftmost match, None when there is none
SkipDegree(text, j) ==
    IF j <= Len(text) /\ text[j] = DEGREE THEN SkipSpaces(text, j + 1) ELSE j
LetterLAt(text, j) == j <= Len(text) /\ text[j] = "L" /\ WordBoundary(text, j)
ReLovibondL(text) ==
    OneGroup(text, Leftmost({i \in RunStarts(text) :
        LetterLAt(text, SkipDegree(text, SkipSpaces(text, DigitRunEnd(text, i) + 1)))}))

\* r'CRYSTAL\s*(\d+)\b(?!\s*EBC)' and r'CARAMEL\s*(\d+)\b(?!\s*EBC)'
NumberNotEbcEnds(text, j, e) ==
    e >= j /\ WordBoundary(text, e) /\ ~StartsAt(text, SkipSpaces(text, e + 1), EBC)
ReWordNumberNotEbc(text, word) ==
    OneGroup(text, Leftmost(
        {j \in {SkipSpaces(text, i + Len(word)) : i \in Occurrences(text, word)} :
            NumberNotEbcEnds(text, j, DigitRunEnd(text, j))}))

\* (\d+)\s*[-–]\s*(\d+) at a: the place of the second number, 0 when there is no match
SecondNumber(text, b) == IF DigitRunEnd(text, b) >= b THEN b ELSE 0
AfterDash(text, a, dash) ==
    IF DigitRunEnd(text, a) >= a /\ IsDash(text, dash)
    THEN SecondNumber(text, SkipSpaces(text, dash + 1)) ELSE 0
RangeSecond(text, a) == AfterDash(text, a, SkipSpaces(text, DigitRunEnd(text, a) + 1))
\* match.groups() of a range pattern whose first number is at a (0: no match)
TwoGroups(text, a) ==
    IF a = 0 THEN None ELSE <<DigitsAt(text, a), DigitsAt(text, RangeSecond(text, a))>>

\* r'EBC[:\s]*(\d+)\s*[-–]\s*(\d+)'
ReEbcThenRange(text) ==
    TwoGroups(text, Leftmost(
        {a \in {SkipColonSpaces(text, i + 3) : i \in Occurrences(text, EBC)} :
            RangeSecond(text, a) > 0}))

\* r'(\d+)\s*[-–]\s*(\d+)\s*EBC'
EbcAfterNumber(text, b) ==
    b > 0 /\ StartsAt(text, SkipSpaces(text, DigitRunEnd(text, b) + 1), EBC)
ReRangeThenEbc(text) ==
    TwoGroups(text, Leftmost({i \in RunStarts(text) :
        EbcAfterNumber(text, RangeSecond(text, i))}))

\* (\d+)(?!\s*[-–]) at a: the last index of the group, 0 when there is no match; when
\* a dash follows the digits the match gives back the last digit, after which the
\* lookahead sees a digit and passes
NoDashEnd(a, e, dashed) ==
    IF e < a THEN 0 ELSE IF ~dashed THEN e ELSE IF e > a THEN e - 1 ELSE 0
NumberNoDashEnd(text, a) ==
    NoDashEnd(a, DigitRunEnd(text, a), IsDash(text, SkipSpaces(text, DigitRunEnd(text, a) + 1)))
GroupNoDash(text, a) ==
    IF a = 0 THEN None ELSE <<SubSeq(text, a, NumberNoDashEnd(text, a))>>

\* r'EBC[:\s]*(\d+)(?!\s*[-–])'
ReEbcThenNumber(text) ==
    GroupNoDash(text, Leftmost(
        {a \in {SkipColonSpaces(text, i + 3) : i \in Occurrences(text, EBC)} :
            NumberNoDashEnd(text, a) > 0}))

\* r'(\d+)\s*EBC\b'
EbcWordAt(text, j) == StartsAt(text, j, EBC) /\ WordBoundary(text, j + 2)
ReNumberThenEbc(text) ==
    OneGroup(text, Leftmost({i \in RunStarts(text) :
        EbcWordAt(text, SkipSpaces(text, DigitRunEnd(text, i) + 1))}))

\* the groups of the first of the patterns (a sequence of match results) that matched
MatchAt(results, k) == IF k = 0 THEN None ELSE results[k]
FirstMatch(results) ==
    MatchAt(results, Leftmost({k \in 1..Len(results) : results[k] # None}))

\* the dicts _parse_malt_color returns
LovibondColor(lovibond, ebc) ==
    [lovibond |-> lovibond, ebc_min |-> ebc, ebc_max |-> ebc, ebc_mid |-> ebc,
     source |-> "lovibond"]
EbcRangeColor(ebc_min, ebc_max, ebc_mid) ==
    [lovibond |-> _ebc_to_lovibond(ebc_mid), ebc_min |-> ebc_min, ebc_max |-> ebc_max,
     ebc_mid |-> ebc_mid, source |-> "ebc_range"]
EbcSingleColor(ebc) ==
    [lovibond |-> _ebc_to_lovibond(ebc), ebc_min |-> ebc, ebc_max |-> ebc,
     ebc_mid |-> ebc, source |-> "ebc_single"]

\* _parse_malt_color once its patterns are tried: Lovibond first, then an EBC range,
\* then a single EBC value
MaltColor(lov, rng, one) ==
    IF lov # None
    THEN LovibondColor(Num(IntOf(lov[1])), _lovibond_to_ebc(Num(IntOf(lov[1]))))
    ELSE IF rng # None
    THEN EbcRangeColor(Num(IntOf(rng[1])), Num(IntOf(rng[2])),
                       RDiv(RAdd(Num(IntOf(rng[1])), Num(IntOf(rng[2]))), Num(2)))
    ELSE IF one # None
    THEN EbcSingleColor(Num(IntOf(one[1])))
    ELSE None

ColorOfUpper(text) ==
    MaltColor(FirstMatch(<<ReLovibondL(text),
                           ReWordNumberNotEbc(text, Chars("CRYSTAL")),
                           ReWordNumberNotEbc(text, Chars("CARAMEL"))>>),
              FirstMatch(<<ReEbcThenRange(text), ReRangeThenEbc(text)>>),
              FirstMatch(<<ReEbcThenNumber(text), ReNumberThenEbc(text)>>))

_parse_malt_color(text) ==
    IF text = <<>> THEN None ELSE ColorOfUpper(StrUpper(text))

crystal_keywords ==
    <<Chars("crystal"), Chars("caramel"), Chars("cara"), Chars("caramalt"),
      Chars("carapils"), Chars("caramunich"), Chars("carared"), Chars("carahell")>>

\* any(kw in name_lower for kw in keywords)
AnyIn(keywords, name_lower) == \E k \in 1..Len(keywords) : StrIn(keywords[k], name_lower)

_is_crystal_malt(name) == AnyIn(crystal_keywords, StrLower(name))

\* ScoreAtDistance with the comparison "distance >= tolerance"
ScoreAtDistanceExclusive(distance, tolerance) ==
    IF RLe(tolerance, distance) THEN Num(0)
    ELSE RMax(Num(0), RSub(Num(100), RMul(RDiv(distance, tolerance), Num(50))))

\* distance > tolerance gives 0, else max(0, 100 - (distance / tolerance) * 50)
ScoreAtDistance(distance, tolerance) ==
    IF RLt(tolerance, distance) THEN Num(0)
    ELSE RMax(Num(0), RSub(Num(100), RMul(RDiv(distance, tolerance), Num(50))))

_calculate_color_match_score(target_ebc, product_ebc_min, product_ebc_max, tolerance) ==
    IF RLe(product_ebc_min, target_ebc) /\ RLe(target_ebc, product_ebc_max)
    THEN Num(100)
    ELSE ScoreAtDistance(IF RLt(target_ebc, product_ebc_min)
                         THEN RSub(product_ebc_min, target_ebc)
                         ELSE RSub(target_ebc, product_ebc_max),
                         tolerance)

(***************************************************************************)
(* Maltster brands                                                         *)
(***************************************************************************)
CHATEAU == Chars("ch") \o <<ACIRC>> \o Chars("teau")

MALTSTER_BRANDS ==
    <<Chars("bestmalz"), Chars("best"),
      Chars("weyermann"),
      Chars("simpsons"), Chars("simpson"),
      Chars("crisp"),
      Chars("thomas fawcett"), Chars("fawcett"),
      Chars("warminster"),
      Chars("muntons"),
      Chars("pauls malt"), Chars("pauls"),
      Chars("castle malting"), CHATEAU, Chars("chateau"),
      Chars("briess"),
      Chars("great western"),
      Chars("rahr"),
      Chars("dingemans"),
      Chars("franco-belges"),
      Chars("malt craft"),
      Chars("gladfield")>>

\* the canonical name of a brand of MALTSTER_BRANDS
CanonicalBrand(brand) ==
    IF brand \in {Chars("best"), Chars("bestmalz")} THEN Chars("bestmalz")
    ELSE IF brand \in {Chars("simpson"), Chars("simpsons")} THEN Chars("simpsons")
    ELSE IF brand \in {Chars("fawcett"), Chars("thomas fawcett")} THEN Chars("thomas fawcett")
    ELSE IF brand \in {CHATEAU, Chars("chateau"), Chars("castle malting")}
    THEN Chars("castle malting")
    ELSE IF brand \in {Chars("pauls"), Chars("pauls malt")} THEN Chars("pauls malt")
    ELSE brand

\* the canonical name of the first brand (the k-th, 0: none) found in the name
BrandAt(brands, k) == IF k = 0 THEN None ELSE CanonicalBrand(brands[k])
FirstBrandIn(brands, name_lower) ==
    BrandAt(brands, Leftmost({k \in 1..Len(brands) : StrIn(brands[k], name_lower)}))

_extract_maltster(name) ==
    IF name = <<>> THEN None ELSE FirstBrandIn(MALTSTER_BRANDS, StrLower(name))

\* compatible only when neither has a brand or both have the same
SameOrBothGeneric(maltster1, maltster2) ==
    (maltster1 = None /\ maltster2 = None) \/ (maltster1 # None /\ maltster1 = maltster2)

SameIfBoth(maltster1, maltster2) ==
    IF maltster1 # None /\ maltster2 # None THEN maltster1 = maltster2 ELSE TRUE

_is_same_maltster(name1, name2) ==
    SameIfBoth(_extract_maltster(name1), _extract_maltster(name2))

(***************************************************************************)
(* Yeast identity                                                          *)
(***************************************************************************)
\* the index after the optional hyphen of a code
SkipHyphen(s, j, hyphen) == IF hyphen /\ j <= Len(s) /\ s[j] = "-" THEN j + 1 ELSE j
\* e when d..e is a run of lo..hi digits followed by \b, else 0
DigitsEnd(s, d, e, lo, hi) ==
    IF e - d + 1 >= lo /\ e - d + 1 <= hi /\ WordBoundary(s, e) THEN e ELSE 0
\* the last index of a code prefix, optional hyphen, lo..hi digits and \b that
\* starts at i; 0 when there is none
CodeDigits(s, d, lo, hi) == DigitsEnd(s, d, DigitRunEnd(s, d), lo, hi)
CodeEnd(s, i, prefix, hyphen, lo, hi) ==
    IF StartsAt(s, i, prefix)
    THEN CodeDigits(s, SkipHyphen(s, i + Len(prefix), hyphen), lo, hi)
    ELSE 0
\* the group of a code that starts at i (0: no match)
CodeAt(s, i, prefix, hyphen, lo, hi) ==
    IF i = 0 THEN None ELSE SubSeq(s, i, CodeEnd(s, i, prefix, hyphen, lo, hi))

\* r'\b(<prefix>-?\d{lo,hi})\b': the group of the leftmost match
ReCode(s, prefix, hyphen, lo, hi) ==
    CodeAt(s, Leftmost({i \in 1..Len(s) :
                 WordBoundary(s, i - 1) /\ CodeEnd(s, i, prefix, hyphen, lo, hi) > 0}),
           prefix, hyphen, lo, hi)

\* r'\b(<prefix>\d{lo,hi})\b(?=.*(?:<cue>|...))': the code, with a cue after it
CueAfter(s, e, cues) ==
    e > 0 /\ \E c \in cues : \E k \in (e + 1)..Len(s) : StartsAt(s, k, c)
ReCodeBeforeCue(s, prefix, lo, hi, cues) ==
    CodeAt(s, Leftmost({i \in 1..Len(s) :
                 /\ WordBoundary(s, i - 1)
                 /\ CueAfter(s, CodeEnd(s, i, prefix, FALSE, lo, hi), cues)}),
           prefix, FALSE, lo, hi)

\* the indices where r'\b<word>\s+' ends, one past its whitespace
AfterWord(s, word) ==
    {SkipSpaces(s, i + Len(word)) : i \in
        {i \in Occurrences(s, word) :
            /\ WordBoundary(s, i - 1)
            /\ i + Len(word) <= Len(s)
            /\ IsSpace(s[i + Len(word)])}}

\* r'\b<word>\s+(<prefix>-?\d{lo,hi})\b' for each shape <<prefix, hyphen, lo, hi>>
\* of an alternation, the first shape that fits at the leftmost place
ShapeEnd(s, j, shape) == CodeEnd(s, j, shape[1], shape[2], shape[3], shape[4])
ShapeEndAt(s, j, shapes, k) == IF k = 0 THEN 0 ELSE ShapeEnd(s, j, shapes[k])
FirstShapeEnd(s, j, shapes) ==
    ShapeEndAt(s, j, shapes, Leftmost({k \in 1..Len(shapes) : ShapeEnd(s, j, shapes[k]) > 0}))
ShapedAt(s, j, shapes) == IF j = 0 THEN None ELSE SubSeq(s, j, FirstShapeEnd(s, j, shapes))
ReWordThenCode(s, starts, shapes) ==
    ShapedAt(s, Leftmost({j \in starts : FirstShapeEnd(s, j, shapes) > 0}), shapes)

\* r"\bMangrove\s+Jack(?:'?s)?\s+": the indices one past its whitespace
JackTail(s, j) ==
    IF StartsAt(s, j + 4, Chars("'S")) /\ j + 6 <= Len(s) /\ IsSpace(s[j + 6]) THEN j + 6
    ELSE IF StartsAt(s, j + 4, Chars("S")) /\ j + 5 <= Len(s) /\ IsSpace(s[j + 5]) THEN j + 5
    ELSE j + 4
SpacesFrom(s, t) == IF t <= Len(s) /\ IsSpace(s[t]) THEN SkipSpaces(s, t) ELSE 0
AfterMangroveJack(s) ==
    {SpacesFrom(s, JackTail(s, j)) : j \in
        {j \in AfterWord(s, Chars("MANGROVE")) : StartsAt(s, j, Chars("JACK"))}} \ {0}

\* r'\bLalBrew\s+(\w+)\b'
WordFrom(s, j) ==
    IF j = 0 THEN None
    ELSE SubSeq(s, j, Min({e \in j..Len(s) : e = Len(s) \/ ~IsWordChar(s[e + 1])}))
ReLalBrewWord(s) ==
    WordFrom(s, Leftmost({j \in AfterWord(s, Chars("LALBREW")) : WordAt(s, j)}))

\* patterns of YEAST_ID_PATTERNS in dict and list order, each applied to the
\* upper-cased name with re.IGNORECASE: <<lab, group(1) or None>>
YEAST_ID_PATTERNS(s) ==
    <<<<Chars("fermentis"), ReCode(s, Chars("US"), TRUE, 2, 2)>>,
      <<Chars("fermentis"), ReCode(s, Chars("S"), TRUE, 2, 3)>>,
      <<Chars("fermentis"), ReCode(s, Chars("K"), TRUE, 2, 2)>>,
      <<Chars("fermentis"), ReCode(s, Chars("W"), TRUE, 2, 2)>>,
      <<Chars("fermentis"), ReWordThenCode(s, AfterWord(s, Chars("SAFALE")),
                                    <<<<Chars("US"), TRUE, 2, 2>>>>)>>,
      <<Chars("fermentis"), ReWordThenCode(s, AfterWord(s, Chars("SAFLAGER")),
                                    <<<<Chars("S"), TRUE, 2, 3>>, <<Chars("W"), TRUE, 2, 2>>>>)>>,
      <<Chars("white_labs"), ReCode(s, Chars("WLP"), FALSE, 3, 3)>>,
      <<Chars("wyeast"), ReCodeBeforeCue(s, <<>>, 4, 4, {Chars("WYEAST"), Chars("ACTIVATOR")})>>,
      <<Chars("wyeast"), ReWordThenCode(s, AfterWord(s, Chars("WYEAST")), <<<<<<>>, FALSE, 4, 4>>>>)>>,
      <<Chars("mangrove_jacks"), ReCode(s, Chars("M"), FALSE, 2, 2)>>,
      <<Chars("mangrove_jacks"), ReWordThenCode(s, AfterMangroveJack(s), <<<<Chars("M"), FALSE, 2, 2>>>>)>>,
      <<Chars("lallemand"), ReCode(s, Chars("BRY"), TRUE, 1, Len(s))>>,
      <<Chars("lallemand"), ReCode(s, Chars("CBC"), TRUE, 1, Len(s))>>,
      <<Chars("lallemand"), ReLalBrewWord(s)>>,
      <<Chars("omega"), ReCode(s, Chars("OYL"), TRUE, 3, 3)>>,
      <<Chars("imperial"), ReWordThenCode(s, AfterWord(s, Chars("IMPERIAL")), <<<<Chars("A"), FALSE, 2, 2>>>>)>>,
      <<Chars("imperial"), ReCodeBeforeCue(s, Chars("A"), 2, 2, {Chars("IMPERIAL")})>>>>

\* str.replace(old, "") for a one-character old
RECURSIVE RemoveChar(_, _)
RemoveChar(s, old) ==
    IF s = <<>> THEN <<>>
    ELSE IF Head(s) = old THEN RemoveChar(Tail(s), old)
    ELSE <<Head(s)>> \o RemoveChar(Tail(s), old)

\* _normalize_yeast_id without the lower()
NormalizeKeepCase(yeast_id) ==
    IF yeast_id = <<>> THEN <<>>
    ELSE RemoveChar(RemoveChar(yeast_id, "-"), " ")

_normalize_yeast_id(yeast_id) ==
    IF yeast_id = <<>> THEN <<>>
    ELSE RemoveChar(RemoveChar(StrLower(yeast_id), "-"), " ")

\* the dict _extract_yeast_id returns for the group of a lab's pattern
YeastId(lab, yeast_id) ==
    [id |-> StrUpper(yeast_id), lab |-> lab, normalized |-> _normalize_yeast_id(yeast_id)]
\* the first pattern (the k-th, 0: none) that matched
YeastIdAt(tried, k) == IF k = 0 THEN None ELSE YeastId(tried[k][1], tried[k][2])
FirstYeastId(tried) ==
    YeastIdAt(tried, Leftmost({k \in 1..Len(tried) : tried[k][2] # None}))

_extract_yeast_id(name) ==
    IF name = <<>> THEN None ELSE FirstYeastId(YEAST_ID_PATTERNS(StrUpper(name)))

YEAST_EQUIVALENTS ==
    <<<<Chars("us-05"), <<Chars("wlp001"), Chars("wyeast 1056"), Chars("1056"),
                          Chars("safale us-05"), Chars("bry-97")>>>>,
      <<Chars("wlp001"), <<Chars("us-05"), Chars("wyeast 1056"), Chars("1056"),
                           Chars("safale us-05")>>>>,
      <<Chars("1056"), <<Chars("us-05"), Chars("wlp001"), Chars("safale us-05")>>>>,
      <<Chars("s-04"), <<Chars("wlp007"), Chars("wyeast 1098"), Chars("1098")>>>>,
      <<Chars("wlp007"), <<Chars("s-04"), Chars("wyeast 1098"), Chars("1098")>>>>,
      <<Chars("1098"), <<Chars("s-04"), Chars("wlp007")>>>>,
      <<Chars("m47"), <<Chars("wlp550"), Chars("wyeast 3522"), Chars("3522")>>>>,
      <<Chars("wlp550"), <<Chars("m47"), Chars("wyeast 3522"), Chars("3522")>>>>,
      <<Chars("3522"), <<Chars("m47"), Chars("wlp550")>>>>,
      <<Chars("w-34/70"), <<Chars("wlp830"), Chars("wyeast 2124"), Chars("2124"),
                            Chars("s-189")>>>>,
      <<Chars("s-189"), <<Chars("w-34/70"), Chars("wlp830"), Chars("wyeast 2124")>>>>,
      <<Chars("wlp830"), <<Chars("w-34/70"), Chars("s-189"), Chars("wyeast 2124")>>>>,
      <<Chars("2124"), <<Chars("w-34/70"), Chars("s-189"), Chars("wlp830")>>>>,
      <<Chars("wlp300"), <<Chars("wyeast 3068"), Chars("3068")>>>>,
      <<Chars("3068"), <<Chars("wlp300")>>>>,
      <<Chars("oyl-061"), <<Chars("voss kveik")>>>>>>

\* [e for e in seq if keep(e)] for keep given as the set of kept indices
RECURSIVE SelectIdx(_, _, _)
SelectIdx(seq, kept, i) ==
    IF i > Len(seq) THEN <<>>
    ELSE (IF i \in kept THEN <<seq[i]>> ELSE <<>>) \o SelectIdx(seq, kept, i + 1)

\* the loop body of _get_yeast_equivalents returns at this key
ReturnsAt(normalized, key, equivalents) ==
    \/ _normalize_yeast_id(key) = normalized
    \/ \E j \in 1..Len(equivalents) : _normalize_yeast_id(equivalents[j]) = normalized
\* a variant that returns the whole member list when the query is a member
ReturnedWithQuery(normalized, key, equivalents) ==
    IF _normalize_yeast_id(key) = normalized THEN equivalents
    ELSE <<key>> \o equivalents
\* what it returns there
ReturnedAt(normalized, key, equivalents) ==
    IF _normalize_yeast_id(key) = normalized THEN equivalents
    ELSE <<key>> \o SelectIdx(equivalents,
                              {j \in 1..Len(equivalents) :
                                  _normalize_yeast_id(equivalents[j]) # normalized}, 1)
EquivalentsAt(table, normalized, k) ==
    IF k = 0 THEN <<>> ELSE ReturnedAt(normalized, table[k][1], table[k][2])
EquivalentsIn(table, normalized) ==
    EquivalentsAt(table, normalized,
                  Leftmost({k \in 1..Len(table) :
                               ReturnsAt(normalized, table[k][1], table[k][2])}))

_get_yeast_equivalents(yeast_id) ==
    EquivalentsIn(YEAST_EQUIVALENTS, _normalize_yeast_id(yeast_id))

yeast_keywords ==
    <<Chars("yeast"), Chars("ale yeast"), Chars("lager yeast"), Chars("safale"),
      Chars("saflager"), Chars("wyeast"), Chars("white labs"), Chars("wlp"),
      Chars("mangrove jack"), Chars("lallemand"), Chars("lalbrew"), Chars("fermentis"),
      Chars("omega"), Chars("imperial yeast"), Chars("kveik"), Chars("starter"),
      Chars("activator"), Chars("dry yeast"), Chars("liquid yeast")>>

_is_yeast_product(name) ==
    AnyIn(yeast_keywords, StrLower(name)) \/ _extract_yeast_id(name) # None

lab_mappings ==
    <<<<Chars("fermentis"), Chars("fermentis")>>,
      <<Chars("safale"), Chars("fermentis")>>,
      <<Chars("saflager"), Chars("fermentis")>>,
      <<Chars("lesaffre"), Chars("fermentis")>>,
      <<Chars("white labs"), Chars("white_labs")>>,
      <<Chars("whitelabs"), Chars("white_labs")>>,
      <<Chars("wlp"), Chars("white_labs")>>,
      <<Chars("wyeast"), Chars("wyeast")>>,
      <<Chars("wyeast laboratories"), Chars("wyeast")>>,
      <<Chars("mangrove jack"), Chars("mangrove_jacks")>>,
      <<Chars("mangrove jacks"), Chars("mangrove_jacks")>>,
      <<Chars("mangrove jack's"), Chars("mangrove_jacks")>>,
      <<Chars("lallemand"), Chars("lallemand")>>,
      <<Chars("lalbrew"), Chars("lallemand")>>,
      <<Chars("lalvin"), Chars("lallemand")>>,
      <<Chars("omega"), Chars("omega")>>,
      <<Chars("omega yeast"), Chars("omega")>>,
      <<Chars("omega yeast labs"), Chars("omega")>>,
      <<Chars("imperial"), Chars("imperial")>>,
      <<Chars("imperial yeast"), Chars("imperial")>>,
      <<Chars("imperial organic yeast"), Chars("imperial")>>>>

\* the canonical name of the first pattern (the k-th, 0: none) found in the lab name
MappedAt(mappings, lab_lower, k) == IF k = 0 THEN lab_lower ELSE mappings[k][2]
FirstMapped(mappings, lab_lower) ==
    MappedAt(mappings, lab_lower,
             Leftmost({k \in 1..Len(mappings) : StrIn(mappings[k][1], lab_lower)}))

_map_lab_name(lab_name) ==
    IF lab_name = <<>> THEN Chars("unknown") ELSE FirstMapped(lab_mappings, StrLower(lab_name))

(***************************************************************************)
(* The caller's state                                                      *)
(***************************************************************************)
VARIABLES
    products,      \* the catalog the caller fetched: <<[id, name, description], ...>>
    stock,         \* the stock list it fetched: <<[product_id, amount], ...>>
    call,          \* the arguments of the last _smart_match_ingredient call, or None
    substitutes,   \* the scored list that call got from _find_ingredient_substitutes
    result,        \* the dict that call returned, or None
    hashSeed       \* the interpreter's string hash seed (PYTHONHASHSEED), fixed per process

vars == <<products, stock, call, substitutes, result, hashSeed>>

(***************************************************************************)
(* Lists and sets as Python builds them                                    *)
(***************************************************************************)
CharOrder == Chars(" '-/0123456789:ABCDEFGHIJKLMNOPQRSTUVWXYZ_abcdefghijklmnopqrstuvwxyz")
CharCodes == [c \in {CharOrder[i] : i \in 1..Len(CharOrder)} |->
                 CHOOSE i \in 1..Len(CharOrder) : CharOrder[i] = c]
\* ord(c) as far as the order of two characters goes
CharCode(c) == IF c \in DOMAIN CharCodes THEN CharCodes[c] ELSE Len(CharOrder) + 1

RECURSIVE StrLess(_, _)
StrLess(a, b) ==
    IF b = <<>> THEN FALSE
    ELSE IF a = <<>> THEN TRUE
    ELSE IF Head(a) = Head(b) THEN StrLess(Tail(a), Tail(b))
    ELSE CharCode(Head(a)) < CharCode(Head(b))

\* list(S) for a set of str: the iteration order of a set of strings follows their
\* hashes, which the interpreter salts with its hash seed; the seed picks the order,
\* and the seeds 0..n!-1 pick the n! orders of n strings
RECURSIVE ListOfSet(_, _)
ListOfSet(S, seed) ==
    IF S = {} THEN <<>>
    ELSE LET n == Cardinality(S)
             first == CHOOSE x \in S : Cardinality({y \in S : StrLess(y, x)}) = seed % n
         IN  <<first>> \o ListOfSet(S \ {first}, seed \div n)

\* the list left as the loop appended it, the sort left out
Unsorted(matches) == matches

\* list.sort(key=lambda x: x["score"], reverse=True): stable, highest score first
RECURSIVE SortByScoreDesc(_)
SortByScoreDesc(matches) ==
    IF matches = <<>> THEN <<>>
    ELSE LET n == Len(matches)
             sorted == SortByScoreDesc(SubSeq(matches, 1, n - 1))
             x == matches[n]
             \* x goes after every element whose score is >= its own
             k == Cardinality({i \in 1..Len(sorted) : RLe(x.score, sorted[i].score)})
         IN  SubSeq(sorted, 1, k) \o <<x>> \o SubSeq(sorted, k + 1, Len(sorted))

\* [m for m in matches if keep(m)] for keep given as a set of kept elements' indices
Filter(matches, kept) == SelectIdx(matches, kept, 1)

\* seq[from - 1:], the slice without its end
SliceToEnd(seq, from, to) == SubSeq(seq, from, Len(seq))

\* seq[from - 1:to], which stops at the end of the list
Slice(seq, from, to) == SubSeq(seq, from, IF to > Len(seq) THEN Len(seq) ELSE to)

\* {s.get("product_id"): s for s in stock}: the last entry of an id wins
InStockMap(stock_list, product_id) ==
    \E i \in 1..Len(stock_list) : stock_list[i].product_id = product_id
StockAmount(stock_list, product_id) ==
    LET last == CHOOSE i \in 1..Len(stock_list) :
                    /\ stock_list[i].product_id = product_id
                    /\ \A j \in (i + 1)..Len(stock_list) : stock_list[j].product_id # product_id
    IN  stock_list[last].amount

\* match_info whose score stays at the 0 it is created with
MatchInfoUnscored(product, stock_list, score, match_type, details) ==
    [product_id |-> product.id, product_name |-> product.name, score |-> Num(0),
     match_type |-> match_type, details |-> details]

\* match_info, with stock_amount when the stock map holds the product
MatchInfo(product, stock_list, score, match_type, details) ==
    LET info == [product_id |-> product.id, product_name |-> product.name,
                 score |-> score, match_type |-> match_type, details |-> details]
    IN  IF InStockMap(stock_list, product.id)
        THEN info @@ [stock_amount |-> StockAmount(stock_list, product.id)]
        ELSE info

(***************************************************************************)
(* Inputs                                                                  *)
(***************************************************************************)
\* the defaults of tolerance_ebc and min_score
DEFAULT_TOLERANCE_EBC == <<30, 1>>
DEFAULT_MIN_SCORE == <<50, 1>>

MaxCatalog == 6
NumHashSeeds == 3

Product(id, name, description) == [id |-> id, name |-> Chars(name), description |-> Chars(description)]

\* the products the inventory may hold, with their ids
ProductPool ==
    <<Product(1, "Cascade", ""),
      Product(2, "Cascade Hops", ""),
      Product(3, "US Cascade", ""),
      Product(4, "Cascade Hops Pellets", ""),
      Product(5, "Pellets Hops Cascade US", ""),
      Product(6, "Cascade Leaf", ""),
      Product(7, "Simpsons Best Pale Ale", ""),
      Product(8, "Weyermann Pale Ale", ""),
      Product(9, "BESTMALZ Pale Ale", ""),
      Product(10, "BEST Pale Ale", ""),
      Product(11, "Caramel 60L", ""),
      Product(12, "Crystal 60L", ""),
      Product(13, "Caramunich 140-160 EBC", ""),
      Product(14, "Caramel 180 EBC", ""),
      Product(15, "Safale US-05", ""),
      Product(16, "WLP001 California Ale", ""),
      Product(17, "Crisp US-05", ""),
      Product(18, "Nottingham Ale Yeast", ""),
      Product(19, "Saflager S-189", ""),
      Product(20, "Saflager W-34/70", "")>>

\* a catalog is a run of at most MaxCatalog consecutive products of the pool
Catalogs ==
    {SubSeq(ProductPool, w[1], w[2]) :
        w \in {w \in (1..Len(ProductPool)) \X (0..Len(ProductPool)) :
                  w[2] >= w[1] - 1 /\ w[2] - w[1] + 1 <= MaxCatalog}}

\* the stock list fetched with a catalog: an entry for every second product
RECURSIVE StockFor(_)
StockFor(product_list) ==
    IF product_list = <<>> THEN <<>>
    ELSE (IF Head(product_list).id % 2 = 0
          THEN <<[product_id |-> Head(product_list).id, amount |-> Head(product_list).id]>>
          ELSE <<>>) \o StockFor(Tail(product_list))

\* the arguments of one _smart_match_ingredient call: name, threshold and BeerSmith metadata
Query(name, min_score, supplier, lab, product_id, color_lovibond) == [ingredient_name |-> Chars(name), min_score |-> Num(min_score), supplier |-> Chars(supplier), origin |-> <<>>, lab |-> Chars(lab), product_id |-> Chars(product_id), color_lovibond |-> color_lovibond]

\* the calls a caller may make
Queries ==
    {Query("", 50, "", "", "", None),
     Query("Cascade", 50, "", "", "", None),
     Query("Cascade", 90, "", "", "", None),
     Query("Cascade Hops Pellets", 50, "", "", "", None),
     Query("BEST Pale Ale", 50, "BESTMALZ", "", "", None),
     Query("BEST Pale Ale", 30, "BESTMALZ", "", "", None),
     Query("BEST Pale Ale", 50, "", "", "", None),
     Query("weyermann pale ale", 50, "BESTMALZ", "", "", None),
     Query("Pale Ale", 50, "BESTMALZ", "", "", None),
     Query("Pale Ale", 50, "", "", "", None),
     Query("Crystal 60L", 50, "", "", "", None),
     Query("Crystal 60L", 50, "", "", "", Num(56)),
     Query("Crystal", 50, "", "", "", Num(10)),
     Query("Safale US-05", 50, "", "", "", None),
     Query("Safale US-05", 50, "Fermentis", "", "", None),
     Query("American Ale", 50, "", "", "US-05", None),
     Query("American Ale", 30, "", "", "US-05", None),
     Query("Nottingham Ale Yeast", 50, "", "", "", None),
     Query("Cascade", 50, "", "Fermentis", "", None),
     Query("Saflager S-23", 50, "", "", "", None),
     Query("Saflager S-189", 50, "", "", "", None),
     Query("Lager", 50, "", "", "W-34/70", None),
     Query("Danstar Nottingham Ale Yeast", 30, "", "", "", None),
     Query("Saflager S-23", 50, "", "White Labs", "", None),
     Query("Saflager S-23", 50, "", "White Labs", "S-23", None)}

\* thresholds a caller may pass as min_score
MinScores == {Num(30), DEFAULT_MIN_SCORE, Num(90)}
HashSeeds == 0..(NumHashSeeds - 1)

(***************************************************************************)
(* Texts in play                                                           *)
(***************************************************************************)
\* every text a call can hand to an extractor: names, descriptions, suppliers
TextsOf(pool, queries) ==
    {pool[i].name : i \in 1..Len(pool)} \cup
    {pool[i].description : i \in 1..Len(pool)} \cup
    {q.ingredient_name : q \in queries} \cup
    {q.supplier : q \in queries}
Texts == TextsOf(ProductPool, Queries)
LowerTexts == {StrLower(t) : t \in Texts}

\* The extractors are pure functions of their text.  Their values on the texts in
\* play are tabulated once, and the matchers below look them up: f(t) for a text t
\* in play is _f(t).
LowerTable == [t \in Texts |-> StrLower(t)]
lower(s) == LowerTable[s]

\* set(lower.replace("-", " ").split()) and the same with "/" replaced too
WordsDashTable == [t \in LowerTexts |-> SplitSet(ReplaceChar(t, "-", " "))]
WordsDash(s) == WordsDashTable[s]
WordsDashSlashTable ==
    [t \in LowerTexts |-> SplitSet(ReplaceChar(ReplaceChar(t, "-", " "), "/", " "))]
WordsDashSlash(s) == WordsDashSlashTable[s]

MaltColorTable == [t \in Texts |-> _parse_malt_color(t)]
parse_malt_color(text) == MaltColorTable[text]

CrystalTable == [t \in Texts |-> _is_crystal_malt(t)]
is_crystal_malt(name) == CrystalTable[name]

MaltsterTable == [t \in Texts |-> _extract_maltster(t)]
extract_maltster(name) == MaltsterTable[name]

YeastIdTable == [t \in Texts |-> _extract_yeast_id(t)]
extract_yeast_id(name) == YeastIdTable[name]

YeastProductTable == [t \in Texts |-> _is_yeast_product(t)]
is_yeast_product(name) == YeastProductTable[name]

\* a or b
Or(a, b) == IF a # None THEN a ELSE b

(***************************************************************************)
(* _match_yeast                                                            *)
(***************************************************************************)
\* the non-None entries of a per-product table, in catalog order
RECURSIVE Appended(_, _)
Appended(table, i) ==
    IF i > Len(table) THEN <<>>
    ELSE (IF table[i] = None THEN <<>> ELSE <<table[i]>>) \o Appended(table, i + 1)

\* the words Levels 2 and 3 leave out of the word sets
lab_name_filler ==
    {Chars("yeast"), Chars("ale"), Chars("lager"), Chars("dry"), Chars("liquid"),
     Chars("the"), Chars("a")}
fuzzy_name_filler ==
    {Chars("yeast"), Chars("the"), Chars("a"), Chars("an"), Chars("-"), Chars("/")}

\* ingredient_yeast: from the BeerSmith product id when there is one, else from the name
IngredientYeast(ingredient_name, lab, yeast_product_id) ==
    IF yeast_product_id # <<>>
    THEN [id |-> StrUpper(yeast_product_id),
          lab |-> IF lab # <<>> THEN _map_lab_name(lab) ELSE Chars("unknown"),
          normalized |-> _normalize_yeast_id(yeast_product_id),
          source |-> "beersmith"]
    ELSE extract_yeast_id(ingredient_name)

\* ingredient_normalized: in both branches the normalized id of ingredient_yeast
IngredientNormalized(ingredient_yeast) ==
    IF ingredient_yeast # None THEN ingredient_yeast.normalized ELSE None

\* assigned by _match_yeast and never read
beersmith_lab(lab) == IF lab # <<>> THEN _map_lab_name(lab) ELSE None

\* what the body of the first loop computes from the two names
YeastLocals(ingredient_name, product_name) ==
    [is_yeast |-> is_yeast_product(product_name),
     product_yeast |-> extract_yeast_id(product_name),
     \* Level 2
     lab_ing_words |-> WordsDash(lower(ingredient_name)) \ lab_name_filler,
     lab_prod_words |-> WordsDash(lower(product_name)) \ lab_name_filler,
     \* Level 3
     ing_words |-> WordsDashSlash(lower(ingredient_name)) \ fuzzy_name_filler,
     prod_words |-> WordsDashSlash(lower(product_name)) \ fuzzy_name_filler]

\* Levels 1 to 3 of the first loop for one product with locals v: the match_info
\* it appends, or None
YeastLevel(ingredient_yeast, ingredient_normalized, product, stock_list, v) ==
    LET overlap == Cardinality(v.ing_words \cap v.prod_words)
        total == Cardinality(v.ing_words \cup v.prod_words)
    IN  IF ~v.is_yeast THEN None
        ELSE IF /\ ingredient_normalized # <<>>
                /\ v.product_yeast # None
                /\ ingredient_normalized = v.product_yeast.normalized
        THEN MatchInfo(product, stock_list, Num(100), "yeast_id",
                       [matched_id |-> v.product_yeast.id, lab |-> v.product_yeast.lab])
        ELSE IF /\ ingredient_yeast # None
                /\ v.product_yeast # None
                /\ ingredient_yeast.lab = v.product_yeast.lab
                /\ v.lab_ing_words # {}
                /\ v.lab_prod_words # {}
                /\ Cardinality(v.lab_ing_words \cap v.lab_prod_words) >= 2
        THEN MatchInfo(product, stock_list, Num(80), "lab_name",
                       [lab |-> ingredient_yeast.lab])
        ELSE IF /\ v.ing_words # {}
                /\ v.prod_words # {}
                /\ overlap > 0
                /\ RLe(Num(60), RMul(Rat(overlap, total), Num(100)))
        THEN MatchInfo(product, stock_list,
                       RMul(RMul(Rat(overlap, total), Num(100)), Rat(7, 10)), "fuzzy_name",
                       [matching_words |-> ListOfSet(v.ing_words \cap v.prod_words, hashSeed)])
        ELSE None

YeastLevels(ingredient_name, ingredient_yeast, product, stock_list) ==
    YeastLevel(ingredient_yeast, IngredientNormalized(ingredient_yeast), product, stock_list,
               YeastLocals(ingredient_name, product.name))

\* the first loop: the matches of Levels 1 to 3, in catalog order
FirstLoop(ingredient_name, ingredient_yeast, product_list, stock_list) ==
    Appended([i \in 1..Len(product_list) |->
                 YeastLevels(ingredient_name, ingredient_yeast, product_list[i], stock_list)],
             1)

\* Level 4 for one product whose yeast id is product_yeast, given the matches so far
Equivalent(ingredient_name, ingredient_yeast, equivalents, matches, product, stock_list, product_yeast) ==
    IF \E k \in 1..Len(matches) : matches[k].product_id = product.id THEN None
    ELSE IF product_yeast = None THEN None
    ELSE IF \E j \in 1..Len(equivalents) :
                _normalize_yeast_id(equivalents[j]) = product_yeast.normalized
    THEN MatchInfo(product, stock_list, Num(40), "equivalent",
                   [equivalent_to |-> IF ingredient_yeast # None THEN ingredient_yeast.id
                                      ELSE ingredient_name,
                    matched_id |-> product_yeast.id])
    ELSE None

YeastEquivalent(ingredient_name, ingredient_yeast, equivalents, matches, product, stock_list) ==
    Equivalent(ingredient_name, ingredient_yeast, equivalents, matches, product, stock_list,
               extract_yeast_id(product.name))

\* the second loop: the matches after its first i products
RECURSIVE EquivalentsLoop(_, _, _, _, _, _, _)
EquivalentsLoop(ingredient_name, ingredient_yeast, equivalents, direct, product_list, stock_list, i) ==
    IF i = 0 THEN direct
    ELSE LET matches == EquivalentsLoop(ingredient_name, ingredient_yeast, equivalents,
                                        direct, product_list, stock_list, i - 1)
             m == YeastEquivalent(ingredient_name, ingredient_yeast, equivalents,
                                  matches, product_list[i], stock_list)
         IN  IF m = None THEN matches ELSE Append(matches, m)

\* _match_yeast without its Level 4
NoEquivalents(ingredient_normalized) == <<>>

\* equivalents, when ingredient_normalized is there
EquivalentsFor(ingredient_normalized) ==
    IF ingredient_normalized # <<>> THEN _get_yeast_equivalents(ingredient_normalized)
    ELSE <<>>

\* Level 4 runs over the matches of the first loop when there are equivalents
SecondLoop(ingredient_name, ingredient_yeast, equivalents, direct, product_list, stock_list) ==
    IF equivalents # <<>>
    THEN EquivalentsLoop(ingredient_name, ingredient_yeast, equivalents, direct,
                         product_list, stock_list, Len(product_list))
    ELSE direct

\* _match_yeast once ingredient_yeast is known
MatchYeast(ingredient_name, ingredient_yeast, product_list, stock_list) ==
    SortByScoreDesc(
        SecondLoop(ingredient_name, ingredient_yeast,
                   EquivalentsFor(IngredientNormalized(ingredient_yeast)),
                   FirstLoop(ingredient_name, ingredient_yeast, product_list, stock_list),
                   product_list, stock_list))

_match_yeast(ingredient_name, product_list, stock_list, lab, yeast_product_id) ==
    MatchYeast(ingredient_name, IngredientYeast(ingredient_name, lab, yeast_product_id),
               product_list, stock_list)

(***************************************************************************)
(* _find_ingredient_substitutes                                            *)
(***************************************************************************)
\* the words the word sets of the malt and generic paths leave out
malt_filler ==
    {Chars("malt"), Chars("malts"), Chars("the"), Chars("a"), Chars("an"),
     Chars("-"), Chars("/")}

\* round(x, places) and format(x, ".0f"): the nearest multiple of 10^-places.  At
\* a decimal tie the code rounds by the binary value of its float; the exact value
\* is rounded to the even multiple here, and the colours in play keep clear of ties.
RoundTo(x, places) ==
    LET scaled == RMul(x, Num(10 ^ places))
        floor == scaled[1] \div scaled[2]
        twice == 2 * (scaled[1] % scaled[2])
        up == twice > scaled[2] \/ (twice = scaled[2] /\ floor % 2 = 1)
    IN  Rat(IF up THEN floor + 1 ELSE floor, 10 ^ places)

\* ingredient_color: the BeerSmith colour when there is one, else parsed from the name
BeerSmithColor(color_lovibond) ==
    [lovibond |-> color_lovibond, ebc_min |-> _lovibond_to_ebc(color_lovibond),
     ebc_max |-> _lovibond_to_ebc(color_lovibond),
     ebc_mid |-> _lovibond_to_ebc(color_lovibond), source |-> "beersmith"]

IngredientColor(ingredient_name, color_lovibond) ==
    IF color_lovibond # None THEN BeerSmithColor(color_lovibond)
    ELSE parse_malt_color(ingredient_name)

\* ingredient_maltster taken from the name alone, the supplier left unread
IngredientMaltsterFromName(ingredient_name, supplier) == extract_maltster(ingredient_name)

\* ingredient_maltster: from the BeerSmith supplier when there is one, else from the name
IngredientMaltster(ingredient_name, supplier) ==
    IF supplier # <<>> THEN Or(extract_maltster(supplier), lower(supplier))
    ELSE extract_maltster(ingredient_name)

\* what the loop body computes from the two names and the product's description
ProductLocals(ingredient_name, product) ==
    [name_lower |-> lower(ingredient_name),
     product_name_lower |-> lower(product.name),
     product_maltster |-> extract_maltster(product.name),
     product_is_crystal |-> is_crystal_malt(product.name),
     product_color |-> Or(parse_malt_color(product.name), parse_malt_color(product.description)),
     \* the word sets without the filler words
     name_words |-> WordsDashSlash(lower(ingredient_name)) \ malt_filler,
     product_words |-> WordsDashSlash(lower(product.name)) \ malt_filler]

\* the loop body for one product with locals v on the malt and generic paths: the
\* match_info it appends, or None
Substitute(ingredient_color, is_crystal, ingredient_maltster, product, stock_list, tolerance_ebc, v) ==
    LET \* different maltsters
        both_maltster_words == SplitSet(ingredient_maltster) \cup SplitSet(v.product_maltster)
        dm_name_words == v.name_words \ both_maltster_words
        dm_product_words == v.product_words \ both_maltster_words
        \* colour
        color_score == _calculate_color_match_score(ingredient_color.ebc_mid,
                           v.product_color.ebc_min, v.product_color.ebc_max, tolerance_ebc)
        \* word overlap
        name_words == v.name_words \
                      (IF ingredient_maltster # None THEN SplitSet(ingredient_maltster) ELSE {})
        product_words == v.product_words \
                         (IF v.product_maltster # None THEN SplitSet(v.product_maltster) ELSE {})
        overlap == Cardinality(name_words \cap product_words)
        total == Cardinality(name_words \cup product_words)
        word_score == RMul(Rat(overlap, total), Num(70))
    IN  IF /\ ingredient_maltster # None
           /\ v.product_maltster # None
           /\ ingredient_maltster # v.product_maltster
        THEN IF v.name_lower = v.product_name_lower
             THEN MatchInfo(product, stock_list, Num(100), "exact", <<>>)
             ELSE IF /\ dm_name_words # {}
                     /\ dm_product_words # {}
                     /\ Cardinality(dm_name_words \cap dm_product_words) >= 2
             THEN MatchInfo(product, stock_list, Num(30), "different_maltster",
                            [requested_maltster |-> ingredient_maltster,
                             product_maltster |-> v.product_maltster,
                             warning |-> "Different maltster - manual verification recommended"])
             ELSE None
        ELSE IF /\ is_crystal
                /\ ingredient_color # None
                /\ v.product_is_crystal
                /\ v.product_color # None
                /\ RLt(Num(0), color_score)
        THEN MatchInfo(product, stock_list, color_score, "color",
                       [target_ebc |-> RoundTo(ingredient_color.ebc_mid, 1),
                        target_lovibond |-> RoundTo(ingredient_color.lovibond, 1),
                        product_ebc_range |-> <<RoundTo(v.product_color.ebc_min, 0),
                                                RoundTo(v.product_color.ebc_max, 0)>>,
                        ebc_difference |->
                            RoundTo(RMax(RSub(ingredient_color.ebc_mid, v.product_color.ebc_mid),
                                         RSub(v.product_color.ebc_mid, ingredient_color.ebc_mid)),
                                    1)])
        ELSE IF v.name_lower = v.product_name_lower
        THEN MatchInfo(product, stock_list, Num(100), "exact", <<>>)
        ELSE IF StrIn(v.name_lower, v.product_name_lower)
        THEN IF ingredient_maltster # None
             THEN IF StrIn(ingredient_maltster, v.product_name_lower)
                  THEN MatchInfo(product, stock_list, Num(85), "contains", <<>>)
                  ELSE None
             ELSE MatchInfo(product, stock_list, Num(85), "contains", <<>>)
        ELSE IF StrIn(v.product_name_lower, v.name_lower)
        THEN MatchInfo(product, stock_list, Num(75), "partial", <<>>)
        ELSE IF /\ name_words # {}
                /\ product_words # {}
                /\ overlap > 0
                /\ RLe(Num(30), word_score)
        THEN MatchInfo(product, stock_list, word_score, "word_overlap",
                       [matching_words |-> ListOfSet(name_words \cap product_words, hashSeed)])
        ELSE None

SubstituteFor(ingredient_name, ingredient_color, is_crystal, ingredient_maltster, product, stock_list, tolerance_ebc) ==
    Substitute(ingredient_color, is_crystal, ingredient_maltster, product, stock_list,
               tolerance_ebc, ProductLocals(ingredient_name, product))

\* the malt and generic paths: the loop over the products, then the sort
MatchMalt(ingredient_name, product_list, stock_list, tolerance_ebc, ingredient_color, is_crystal, ingredient_maltster) ==
    SortByScoreDesc(
        Appended([i \in 1..Len(product_list) |->
                     SubstituteFor(ingredient_name, ingredient_color, is_crystal,
                                   ingredient_maltster, product_list[i], stock_list,
                                   tolerance_ebc)],
                 1))

\* a variant that classifies by the ingredient name alone
FindClassifiedByName(ingredient_name, product_list, stock_list, tolerance_ebc, supplier, lab, product_id, color_lovibond) ==
    IF is_yeast_product(ingredient_name)
    THEN _match_yeast(ingredient_name, product_list, stock_list, lab, product_id)
    ELSE MatchMalt(ingredient_name, product_list, stock_list, tolerance_ebc,
                   IngredientColor(ingredient_name, color_lovibond),
                   is_crystal_malt(ingredient_name),
                   IngredientMaltster(ingredient_name, supplier))

_find_ingredient_substitutes(ingredient_name, product_list, stock_list, tolerance_ebc, supplier, lab, product_id, color_lovibond) ==
    IF lab # <<>> \/ product_id # <<>> \/ is_yeast_product(ingredient_name)
    THEN _match_yeast(ingredient_name, product_list, stock_list, lab, product_id)
    ELSE MatchMalt(ingredient_name, product_list, stock_list, tolerance_ebc,
                   IngredientColor(ingredient_name, color_lovibond),
                   is_crystal_malt(ingredient_name),
                   IngredientMaltster(ingredient_name, supplier))

(***************************************************************************)
(* _smart_match_ingredient                                                 *)
(***************************************************************************)
MAX_SUGGESTIONS == 3
MAX_ALTERNATIVES == 4

\* valid_matches with the comparison "score <= min_score"
ValidMatchesBelow(scored, min_score) ==
    Filter(scored, {i \in 1..Len(scored) : RLe(scored[i].score, min_score)})

\* valid_matches with the comparison "score > min_score"
ValidMatchesAbove(scored, min_score) ==
    Filter(scored, {i \in 1..Len(scored) : RLt(min_score, scored[i].score)})

\* valid_matches: [s for s in substitutes if s["score"] >= min_score]
ValidMatches(scored, min_score) ==
    Filter(scored, {i \in 1..Len(scored) : RLe(min_score, scored[i].score)})

\* requires_confirmation read as "the match is an equivalent"
RequiresConfirmationEquivalentOnly(best_match) == best_match.match_type = "equivalent"

\* requires_confirmation: best_match["match_type"] in ["equivalent", "different_maltster"]
RequiresConfirmation(best_match) ==
    best_match.match_type \in {"equivalent", "different_maltster"}

\* the part of _smart_match_ingredient after the scored list is known
MatchResult(ingredient_name, scored, min_score) ==
    LET valid_matches == ValidMatches(scored, min_score)
        suggestions == Filter(scored, {i \in 1..Len(scored) : RLt(Num(0), scored[i].score)})
    IN  IF valid_matches = <<>>
        THEN [found |-> FALSE, ingredient |-> ingredient_name, best_match |-> None,
              alternatives |-> <<>>,
              suggestions |-> Slice(suggestions, 1, MAX_SUGGESTIONS)]
        ELSE LET best_match == valid_matches[1]
                 is_exact == best_match.match_type = "exact" /\ best_match.score = Num(100)
                 is_yeast_id == best_match.match_type = "yeast_id" /\ best_match.score = Num(100)
             IN  [found |-> TRUE, ingredient |-> ingredient_name, best_match |-> best_match,
                  alternatives |-> Slice(valid_matches, 2, 1 + MAX_ALTERNATIVES),
                  is_exact |-> is_exact \/ is_yeast_id,
                  requires_confirmation |-> RequiresConfirmation(best_match)]

_smart_match_ingredient(ingredient_name, product_list, stock_list, min_score, supplier, origin, lab, product_id, color_lovibond) ==
    MatchResult(ingredient_name,
                _find_ingredient_substitutes(ingredient_name, product_list, stock_list,
                                             DEFAULT_TOLERANCE_EBC, supplier, lab,
                                             product_id, color_lovibond),
                min_score)

(***************************************************************************)
(* The state machine                                                       *)
(***************************************************************************)
Init ==
    /\ products \in Catalogs
    /\ stock = StockFor(products)
    /\ call = None
    /\ substitutes = <<>>
    /\ result = None
    /\ hashSeed \in HashSeeds

\* a caller that is not waiting for an answer calls _smart_match_ingredient
Request(q) ==
    /\ call = None \/ result # None
    /\ call' = q
    /\ substitutes' = <<>>
    /\ result' = None
    /\ UNCHANGED <<products, stock, hashSeed>>

\* _smart_match_ingredient runs on the pending call (again, when the caller repeats
\* a call it has the answer of): substitutes is its local list of that name
Resolve ==
    /\ call # None
    /\ substitutes' = _find_ingredient_substitutes(call.ingredient_name, products, stock, DEFAULT_TOLERANCE_EBC, call.supplier, call.lab, call.product_id, call.color_lovibond)
    /\ result' = MatchResult(call.ingredient_name, substitutes', call.min_score)
    /\ UNCHANGED <<products, stock, call, hashSeed>>

\* the server process is started anew: the interpreter draws another hash seed
Restart ==
    /\ hashSeed' \in HashSeeds \ {hashSeed}
    /\ UNCHANGED <<products, stock, call, substitutes, result>>

Next ==
    \/ \E q \in Queries : Request(q)
    \/ Resolve
    \/ Restart

Spec == Init /\ [][Next]_vars

(***************************************************************************)
(* _calculate_color_match_score on its own                                 *)
(***************************************************************************)
MaxTargetEbc == 230

\* the edges a product's colour band may have, and the tolerances a caller may pass
BandEdges == {Num(140), Num(150), Rat(1578, 10), Num(160)}
Tolerances == {Num(0), Num(10), Rat(25, 2), Num(30)}

\* the arguments of one _calculate_color_match_score call; a band parsed from a
\* name such as "160-140 EBC" has its edges in the order they were written
ColorArgs ==
    [target_ebc : {Num(t) : t \in 0..MaxTargetEbc}, product_ebc_min : BandEdges,
     product_ebc_max : BandEdges, tolerance : Tolerances]

InitColor ==
    /\ products = <<>>
    /\ stock = <<>>
    /\ call \in ColorArgs
    /\ substitutes = <<>>
    /\ result = None
    /\ hashSeed = 0

\* the pending call returns its score
ColorScore ==
    /\ result = None
    /\ result' = _calculate_color_match_score(call.target_ebc, call.product_ebc_min, call.product_ebc_max, call.tolerance)
    /\ UNCHANGED <<products, stock, call, substitutes, hashSeed>>

NextColor == ColorScore

SpecColor == InitColor /\ [][NextColor]_vars

(***************************************************************************)
(* _parse_malt_color and the colour of a BeerSmith hint on their own       *)
(***************************************************************************)
MaxLovibondHint == 60

\* the words and numbers of the texts handed to the parser
ColorWords == {<<>>, Chars("Crystal "), Chars("Caramunich "), Chars("Pale Ale ")}
ColorNumbers == {Chars("8"), Chars("60"), Chars("140"), Chars("160")}

\* what a name says of its colour: a number alone, Lovibond, EBC, an EBC range
ColorSpecs ==
    {n \o u : n \in ColorNumbers,
              u \in {<<>>, Chars("L"), Chars(" L"), <<DEGREE, "L">>, Chars(" EBC")}} \cup
    {Chars("EBC ") \o n : n \in ColorNumbers} \cup
    {a \o d \o b \o Chars(" EBC") :
        a \in ColorNumbers, b \in ColorNumbers, d \in {Chars("-"), Chars(" - ")}} \cup
    {Chars("EBC ") \o a \o Chars("-") \o b : a \in ColorNumbers, b \in ColorNumbers}

ColorTexts == {<<>>} \cup {w \o c : w \in ColorWords, c \in ColorSpecs}

\* a call hands over a text, or a BeerSmith colour in Lovibond
InitParse ==
    /\ products = <<>>
    /\ stock = <<>>
    /\ \/ call \in [text : ColorTexts, color_lovibond : {None}]
       \/ call \in [text : {<<>>}, color_lovibond : {Num(l) : l \in 0..MaxLovibondHint}]
    /\ substitutes = <<>>
    /\ result = None
    /\ hashSeed = 0

\* the text is parsed
ParseColor ==
    /\ call.color_lovibond = None
    /\ result' = _parse_malt_color(call.text)
    /\ UNCHANGED <<products, stock, call, substitutes, hashSeed>>

\* the colour is built from the hint
HintColor ==
    /\ call.color_lovibond # None
    /\ result' = BeerSmithColor(call.color_lovibond)
    /\ UNCHANGED <<products, stock, call, substitutes, hashSeed>>

NextParse == ParseColor \/ HintColor

SpecParse == InitParse /\ [][NextParse]_vars

(***************************************************************************)
(* The two colour conversions, one after the other, on Lovibond values in  *)
(* steps of a quarter degree                                               *)
(***************************************************************************)
MaxQuarterLovibond == 240

InitConvert ==
    /\ products = <<>>
    /\ stock = <<>>
    /\ call \in [lovibond : {Rat(n, 4) : n \in 0..MaxQuarterLovibond}]
    /\ substitutes = <<>>
    /\ result = None
    /\ hashSeed = 0

\* _lovibond_to_ebc on the value handed over
ToEbc ==
    /\ result = None
    /\ result' = [ebc |-> _lovibond_to_ebc(call.lovibond)]
    /\ UNCHANGED <<products, stock, call, substitutes, hashSeed>>

\* _ebc_to_lovibond on what _lovibond_to_ebc returned
ToLovibond ==
    /\ result # None
    /\ DOMAIN result = {"ebc"}
    /\ result' = [ebc |-> result.ebc, lovibond |-> _ebc_to_lovibond(result.ebc)]
    /\ UNCHANGED <<products, stock, call, substitutes, hashSeed>>

NextConvert == ToEbc \/ ToLovibond

SpecConvert == InitConvert /\ [][NextConvert]_vars

(***************************************************************************)
(* Calls in flight at the same time: every call has its own frame (the     *)
(* position of its loop and its list of matches); the catalog and the      *)
(* stock list are the objects all of them were handed                      *)
(***************************************************************************)
NumCallers == 2
MaxSharedCatalog == 3

Callers == 1..NumCallers

SharedCatalogs == {c \in Catalogs : Len(c) <= MaxSharedCatalog}

ConcurrentQueries ==
    {Query("Cascade", 50, "", "", "", None),
     Query("BEST Pale Ale", 50, "BESTMALZ", "", "", None),
     Query("Crystal 60L", 50, "", "", "", Num(56)),
     Query("Safale US-05", 50, "", "", "", None),
     Query("American Ale", 30, "", "", "US-05", None),
     Query("Nottingham Ale Yeast", 50, "", "", "", None)}

\* the frame of a call that has just been entered
NewFrame == [pc |-> "loop", i |-> 1, matches |-> <<>>]

\* the dispatch of _find_ingredient_substitutes
OnYeastPath(q) == q.lab # <<>> \/ q.product_id # <<>> \/ is_yeast_product(q.ingredient_name)

\* the body of the loop over the products, for one product
LoopBody(q, product, stock_list) ==
    IF OnYeastPath(q)
    THEN YeastLevels(q.ingredient_name,
                     IngredientYeast(q.ingredient_name, q.lab, q.product_id),
                     product, stock_list)
    ELSE SubstituteFor(q.ingredient_name,
                       IngredientColor(q.ingredient_name, q.color_lovibond),
                       is_crystal_malt(q.ingredient_name),
                       IngredientMaltster(q.ingredient_name, q.supplier),
                       product, stock_list, DEFAULT_TOLERANCE_EBC)

\* the equivalents Level 4 of _match_yeast looks for; none on the malt path
Level4Equivalents(q) ==
    IF OnYeastPath(q)
    THEN EquivalentsFor(IngredientNormalized(
             IngredientYeast(q.ingredient_name, q.lab, q.product_id)))
    ELSE <<>>

\* the body of the second loop of _match_yeast, for one product
Level4Body(q, matches, product, stock_list) ==
    YeastEquivalent(q.ingredient_name,
                    IngredientYeast(q.ingredient_name, q.lab, q.product_id),
                    Level4Equivalents(q), matches, product, stock_list)

\* matches.append(match_info) on a list every call shares
AppendShared(frames, c, m) ==
    [d \in DOMAIN frames |-> [frames[d] EXCEPT !.matches = Append(@, m)]]

\* matches.append(match_info): matches is a local of the call
AppendMatch(frames, c, m) == [frames EXCEPT ![c].matches = Append(@, m)]

\* the frames after call c has run a loop body that produced m
Stepped(frames, c, m) ==
    LET appended == IF m = None THEN frames ELSE AppendMatch(frames, c, m)
    IN  [appended EXCEPT ![c].i = @ + 1]

InitConcurrent ==
    /\ products \in SharedCatalogs
    /\ stock = StockFor(products)
    /\ call = [c \in Callers |-> None]
    /\ substitutes = [c \in Callers |-> [pc |-> "idle", i |-> 0, matches |-> <<>>]]
    /\ result = [c \in Callers |-> None]
    /\ hashSeed = 0

\* caller c, not inside a call, calls _smart_match_ingredient
Enter(c, q) ==
    /\ substitutes[c].pc \in {"idle", "done"}
    /\ call' = [call EXCEPT ![c] = q]
    /\ substitutes' = [substitutes EXCEPT ![c] = NewFrame]
    /\ result' = [result EXCEPT ![c] = None]
    /\ UNCHANGED <<products, stock, hashSeed>>

\* one pass of the loop over the products
ScoreProduct(c) ==
    /\ substitutes[c].pc = "loop"
    /\ substitutes[c].i <= Len(products)
    /\ substitutes' = Stepped(substitutes, c,
                              LoopBody(call[c], products[substitutes[c].i], stock))
    /\ UNCHANGED <<products, stock, call, result, hashSeed>>

\* the loop is over: Level 4 follows when there are equivalents, else the sort
EndLoop(c) ==
    /\ substitutes[c].pc = "loop"
    /\ substitutes[c].i > Len(products)
    /\ substitutes' = [substitutes EXCEPT
                          ![c].pc = IF Level4Equivalents(call[c]) # <<>>
                                    THEN "equivalents" ELSE "sort",
                          ![c].i = 1]
    /\ UNCHANGED <<products, stock, call, result, hashSeed>>

\* one pass of the Level 4 loop
ScoreEquivalent(c) ==
    /\ substitutes[c].pc = "equivalents"
    /\ substitutes[c].i <= Len(products)
    /\ substitutes' = Stepped(substitutes, c,
                              Level4Body(call[c], substitutes[c].matches,
                                         products[substitutes[c].i], stock))
    /\ UNCHANGED <<products, stock, call, result, hashSeed>>

EndEquivalents(c) ==
    /\ substitutes[c].pc = "equivalents"
    /\ substitutes[c].i > Len(products)
    /\ substitutes' = [substitutes EXCEPT ![c].pc = "sort"]
    /\ UNCHANGED <<products, stock, call, result, hashSeed>>

\* the sort, and what _smart_match_ingredient makes of the sorted list
Finish(c) ==
    /\ substitutes[c].pc = "sort"
    /\ substitutes' = [substitutes EXCEPT ![c].pc = "done",
                                          ![c].matches = SortByScoreDesc(@)]
    /\ result' = [result EXCEPT
                     ![c] = MatchResult(call[c].ingredient_name,
                                        substitutes'[c].matches, call[c].min_score)]
    /\ UNCHANGED <<products, stock, call, hashSeed>>

NextConcurrent ==
    \E c \in Callers :
        \/ \E q \in ConcurrentQueries : Enter(c, q)
        \/ ScoreProduct(c)
        \/ EndLoop(c)
        \/ ScoreEquivalent(c)
        \/ EndEquivalents(c)
        \/ Finish(c)

SpecConcurrent == InitConcurrent /\ [][NextConcurrent]_vars

(***************************************************************************)
(* brewing_common/matching.py: match_string over RapidFuzz's               *)
(* process.extract with the scorer fuzz.token_sort_ratio. RapidFuzz 3      *)
(* scores the strings as they are; RapidFuzz 2 first runs default_process  *)
(* on them. Which one is installed is an input of the call.                *)
(***************************************************************************)
\* str.strip()
StrStrip(s) ==
    LET kept == {i \in 1..Len(s) : ~IsSpace(s[i])}
    IN  IF kept = {} THEN <<>>
        ELSE SubSeq(s, Min(kept), CHOOSE j \in kept : \A k \in kept : k <= j)

\* str.split() from index i on: the runs of non-whitespace characters, in order
RECURSIVE SplitFrom(_, _)
SplitFrom(s, i) ==
    LET b == SkipSpaces(s, i)
        e == Min({j \in b..(Len(s) + 1) : j = Len(s) + 1 \/ IsSpace(s[j])})
    IN  IF b > Len(s) THEN <<>> ELSE <<SubSeq(s, b, e - 1)>> \o SplitFrom(s, e)

\* sorted(tokens)
RECURSIVE SortedTokens(_)
SortedTokens(tokens) ==
    IF tokens = <<>> THEN <<>>
    ELSE LET n == Len(tokens)
             sorted == SortedTokens(SubSeq(tokens, 1, n - 1))
             k == Cardinality({i \in 1..Len(sorted) : ~StrLess(tokens[n], sorted[i])})
         IN  SubSeq(sorted, 1, k) \o <<tokens[n]>> \o SubSeq(sorted, k + 1, Len(sorted))

\* " ".join(tokens)
RECURSIVE JoinSpace(_)
JoinSpace(tokens) ==
    IF tokens = <<>> THEN <<>>
    ELSE IF Len(tokens) = 1 THEN tokens[1]
    ELSE tokens[1] \o <<" ">> \o JoinSpace(Tail(tokens))

\* utils.default_process: lower case, every non-alphanumeric character a space, trimmed
default_process(s) ==
    StrStrip([i \in 1..Len(s) |->
                 IF IsUpper(s[i]) \/ IsLower(s[i]) \/ IsDigit(s[i]) THEN LowerChar(s[i])
                 ELSE " "])

Processed(s, processor) == IF processor = "default_process" THEN default_process(s) ELSE s

\* one row of the table of longest common subsequences: the row of character c
\* over the text b, after the row prev
RECURSIVE LcsRow(_, _, _, _)
LcsRow(c, b, prev, row) ==
    IF Len(row) = Len(b) THEN row
    ELSE LET j == Len(row) + 1
             diag == IF j = 1 THEN 0 ELSE prev[j - 1]
             left == IF j = 1 THEN 0 ELSE row[j - 1]
             best == IF prev[j] >= left THEN prev[j] ELSE left
         IN  LcsRow(c, b, prev, Append(row, IF c = b[j] THEN diag + 1 ELSE best))

RECURSIVE LcsRows(_, _, _, _)
LcsRows(a, b, i, prev) ==
    IF i > Len(a) THEN prev ELSE LcsRows(a, b, i + 1, LcsRow(a[i], b, prev, <<>>))

LcsLength(a, b) ==
    IF Len(b) = 0 THEN 0 ELSE LcsRows(a, b, 1, [j \in 1..Len(b) |-> 0])[Len(b)]

\* fuzz.ratio: the normalised Indel similarity, 0 to 100
ratio(s1, s2) ==
    IF Len(s1) + Len(s2) = 0 THEN Num(100)
    ELSE Rat(200 * LcsLength(s1, s2), Len(s1) + Len(s2))

\* fuzz.token_sort_ratio: the ratio of the two texts with their tokens sorted
token_sort_ratio(s1, s2, processor) ==
    ratio(JoinSpace(SortedTokens(SplitFrom(Processed(s1, processor), 1))),
          JoinSpace(SortedTokens(SplitFrom(Processed(s2, processor), 1))))

\* process.extract: the candidates with their scores, best first, equal scores in
\* the order of the list, cut to limit
extract(query, candidates, processor, limit) ==
    Slice(SortByScoreDesc([i \in 1..Len(candidates) |->
                              [match |-> candidates[i],
                               score |-> token_sort_ratio(query, candidates[i], processor),
                               index |-> i - 1]]),
          1, limit)

\* the comparison of the filter with the score left on its scale of 0 to 100
AboveThresholdPercent(score, threshold) == RLe(threshold, score)

\* if score / 100 >= threshold
AboveThreshold(score, threshold) == RLe(threshold, RDiv(score, Num(100)))

\* the list comprehension of match_string over the results of process.extract
Confident(results, threshold) ==
    LET kept == Filter(results, {i \in 1..Len(results) :
                                    AboveThreshold(results[i].score, threshold)})
    IN  [i \in 1..Len(kept) |-> <<kept[i].match, RDiv(kept[i].score, Num(100))>>]

match_string(query, candidates, threshold, limit, processor) ==
    IF candidates = <<>> THEN <<>>
    ELSE IF query = <<>> \/ StrStrip(query) = <<>> THEN <<>>
    ELSE Confident(extract(query, candidates, processor, limit), threshold)

MaxLimit == 3
MaxCandidates == 4

CandidatePool ==
    <<Chars("Cascade"), Chars("Centennial"), Chars("Citra"), Chars("Maris Otter"),
      Chars("cascade"), Chars("Cascade"), Chars("Golden Promise"), Chars("Otter")>>

CandidateLists ==
    {SubSeq(CandidatePool, w[1], w[2]) :
        w \in {w \in (1..Len(CandidatePool)) \X (0..Len(CandidatePool)) :
                  w[2] >= w[1] - 1 /\ w[2] - w[1] + 1 <= MaxCandidates}}

MatchQueries ==
    {<<>>, Chars("  "), Chars("Cascade"), Chars("casade"), Chars("Otter Maris"), Chars("c")}

Thresholds == {Rat(1, 10), Rat(1, 2), Rat(7, 10), Rat(9, 10), Num(1)}

InitMatch ==
    /\ products = <<>>
    /\ stock = <<>>
    /\ call \in [query : MatchQueries, candidates : CandidateLists,
                 threshold : Thresholds, limit : 1..MaxLimit,
                 processor : {"None", "default_process"}]
    /\ substitutes = <<>>
    /\ result = None
    /\ hashSeed = 0

\* match_string runs on the call
MatchString ==
    /\ result = None
    /\ result' = [matches |-> match_string(call.query, call.candidates, call.threshold,
                                           call.limit, call.processor)]
    /\ UNCHANGED <<products, stock, call, substitutes, hashSeed>>

NextMatch == MatchString

SpecMatch == InitMatch /\ [][NextMatch]_vars

(***************************************************************************)
(* brewing_common/matching.py: normalise_ingredient_name                   *)
(***************************************************************************)
\* one-element stand-in for the letter u with diaeresis
UUML == "uuml"

\* the dict, in the order it is written: each canonical name with its aliases
INGREDIENT_ALIASES ==
    <<
      [canonical |-> Chars("2-row"),
       aliases |-> <<Chars("two-row"),
                  Chars("2 row"),
                  Chars("pale malt 2-row"),
                  Chars("2-row pale"),
                  Chars("2-row pale malt"),
                  Chars("american 2-row"),
                  Chars("us 2-row")>>],
      [canonical |-> Chars("pilsner"),
       aliases |-> <<Chars("pils"),
                  Chars("pilsner malt"),
                  Chars("pilsen"),
                  Chars("pils malt"),
                  Chars("german pilsner"),
                  Chars("bohemian pilsner")>>],
      [canonical |-> Chars("munich"),
       aliases |-> <<Chars("munich malt"),
                  Chars("m") \o <<UUML>> \o Chars("nchner"),
                  Chars("munchner"),
                  Chars("munich i"),
                  Chars("munich ii")>>],
      [canonical |-> Chars("vienna"),
       aliases |-> <<Chars("vienna malt"),
                  Chars("wiener")>>],
      [canonical |-> Chars("maris otter"),
       aliases |-> <<Chars("maris otter pale"),
                  Chars("mo"),
                  Chars("marris otter")>>],
      [canonical |-> Chars("crystal 60"),
       aliases |-> <<Chars("caramel 60"),
                  Chars("c60"),
                  Chars("crystal 60l"),
                  Chars("caramel 60l")>>],
      [canonical |-> Chars("crystal 40"),
       aliases |-> <<Chars("caramel 40"),
                  Chars("c40"),
                  Chars("crystal 40l"),
                  Chars("caramel 40l")>>],
      [canonical |-> Chars("crystal 20"),
       aliases |-> <<Chars("caramel 20"),
                  Chars("c20"),
                  Chars("crystal 20l"),
                  Chars("caramel 20l")>>],
      [canonical |-> Chars("chocolate malt"),
       aliases |-> <<Chars("chocolate"),
                  Chars("choc malt")>>],
      [canonical |-> Chars("black malt"),
       aliases |-> <<Chars("black patent"),
                  Chars("black patent malt")>>],
      [canonical |-> Chars("roasted barley"),
       aliases |-> <<Chars("roast barley")>>],
      [canonical |-> Chars("wheat malt"),
       aliases |-> <<Chars("wheat"),
                  Chars("malted wheat")>>],
      [canonical |-> Chars("flaked oats"),
       aliases |-> <<Chars("oats"),
                  Chars("oat flakes")>>],
      [canonical |-> Chars("flaked wheat"),
       aliases |-> <<Chars("wheat flakes")>>],
      [canonical |-> Chars("cascade"),
       aliases |-> <<Chars("cascade hops"),
                  Chars("cascade (us)"),
                  Chars("us cascade")>>],
      [canonical |-> Chars("centennial"),
       aliases |-> <<Chars("centennial hops"),
                  Chars("centennial (us)")>>],
      [canonical |-> Chars("citra"),
       aliases |-> <<Chars("citra hops"),
                  Chars("citra (us)")>>],
      [canonical |-> Chars("mosaic"),
       aliases |-> <<Chars("mosaic hops"),
                  Chars("mosaic (us)")>>],
      [canonical |-> Chars("simcoe"),
       aliases |-> <<Chars("simcoe hops"),
                  Chars("simcoe (us)")>>],
      [canonical |-> Chars("amarillo"),
       aliases |-> <<Chars("amarillo hops"),
                  Chars("amarillo (us)")>>],
      [canonical |-> Chars("galaxy"),
       aliases |-> <<Chars("galaxy hops"),
                  Chars("galaxy (au)"),
                  Chars("australian galaxy")>>],
      [canonical |-> Chars("nelson sauvin"),
       aliases |-> <<Chars("nelson"),
                  Chars("nelson sauvin (nz)")>>],
      [canonical |-> Chars("saaz"),
       aliases |-> <<Chars("saaz hops"),
                  Chars("czech saaz")>>],
      [canonical |-> Chars("hallertau"),
       aliases |-> <<Chars("hallertauer"),
                  Chars("hallertau mittelfr") \o <<UUML>> \o Chars("h"),
                  Chars("hallertauer mittelfruh")>>],
      [canonical |-> Chars("east kent goldings"),
       aliases |-> <<Chars("ekg"),
                  Chars("kent goldings"),
                  Chars("goldings")>>],
      [canonical |-> Chars("fuggle"),
       aliases |-> <<Chars("fuggles"),
                  Chars("fuggle hops")>>],
      [canonical |-> Chars("us-05"),
       aliases |-> <<Chars("safale us-05"),
                  Chars("us05"),
                  Chars("american ale yeast"),
                  Chars("us-05 american ale"),
                  Chars("fermentis us-05")>>],
      [canonical |-> Chars("s-04"),
       aliases |-> <<Chars("safale s-04"),
                  Chars("s04"),
                  Chars("english ale yeast"),
                  Chars("s-04 english ale"),
                  Chars("fermentis s-04")>>],
      [canonical |-> Chars("s-33"),
       aliases |-> <<Chars("safale s-33"),
                  Chars("s33")>>],
      [canonical |-> Chars("w-34/70"),
       aliases |-> <<Chars("saflager w-34/70"),
                  Chars("w34/70"),
                  Chars("34/70"),
                  Chars("german lager yeast")>>],
      [canonical |-> Chars("nottingham"),
       aliases |-> <<Chars("danstar nottingham"),
                  Chars("lallemand nottingham")>>],
      [canonical |-> Chars("london ale iii"),
       aliases |-> <<Chars("wyeast 1318"),
                  Chars("1318")>>],
      [canonical |-> Chars("california ale"),
       aliases |-> <<Chars("wlp001"),
                  Chars("wyeast 1056"),
                  Chars("1056"),
                  Chars("american ale")>>],
      [canonical |-> Chars("irish moss"),
       aliases |-> <<Chars("carrageenan"),
                  Chars("whirlfloc")>>],
      [canonical |-> Chars("gypsum"),
       aliases |-> <<Chars("calcium sulfate"),
                  Chars("caso4")>>],
      [canonical |-> Chars("calcium chloride"),
       aliases |-> <<Chars("cacl2")>>]
    >>

CanonicalNames == {INGREDIENT_ALIASES[g].canonical : g \in 1..Len(INGREDIENT_ALIASES)}

\* name.strip() in place of name.lower().strip()
NameStripped(name) == StrStrip(name)

\* name_lower = name.lower().strip()
NameLower(name) == StrStrip(StrLower(name))

\* the groups one of whose aliases, lowered, is name_lower
AliasGroups(table, name_lower) ==
    {g \in 1..Len(table) :
        \E a \in 1..Len(table[g].aliases) : StrLower(table[g].aliases[a]) = name_lower}

\* the rest of normalise_ingredient_name once name_lower is known
Normalised(table, name_lower) ==
    IF \E g \in 1..Len(table) : table[g].canonical = name_lower THEN name_lower
    ELSE IF AliasGroups(table, name_lower) # {}
    THEN table[Min(AliasGroups(table, name_lower))].canonical
    ELSE name_lower

normalise_ingredient_name(name) == Normalised(INGREDIENT_ALIASES, NameLower(name))

MaxPadding == 2

\* names nobody listed
UnknownNames ==
    {<<>>, Chars("some unknown ingredient"), Chars("cascade leaf"), Chars("us"),
     Chars("crystal 80"), Chars("safale")}

BaseNames ==
    CanonicalNames \cup UnknownNames \cup
    UNION {{INGREDIENT_ALIASES[g].aliases[a] : a \in 1..Len(INGREDIENT_ALIASES[g].aliases)} :
              g \in 1..Len(INGREDIENT_ALIASES)}

Padding(n) == [i \in 1..n |-> " "]

\* every base name as listed and in capitals, bare and with blanks around it
IngredientNames ==
    {Chars("Safale US-05"), Chars("US05"), Chars("  Cascade  ")} \cup BaseNames \cup
    {StrUpper(b) : b \in BaseNames} \cup
    {Padding(n) \o b \o Padding(n) : b \in BaseNames, n \in 1..MaxPadding} \cup
    {Padding(n) \o StrUpper(b) \o Padding(n) : b \in BaseNames, n \in 1..MaxPadding}

InitNormalise ==
    /\ products = <<>>
    /\ stock = <<>>
    /\ call \in [name : IngredientNames]
    /\ substitutes = <<>>
    /\ result = None
    /\ hashSeed = 0

\* normalise_ingredient_name on the name
Normalise ==
    /\ result = None
    /\ result' = [once |-> normalise_ingredient_name(call.name)]
    /\ UNCHANGED <<products, stock, call, substitutes, hashSeed>>

\* normalise_ingredient_name on what it returned
NormaliseAgain ==
    /\ result # None
    /\ DOMAIN result = {"once"}
    /\ result' = [once |-> result.once, twice |-> normalise_ingredient_name(result.once)]
    /\ UNCHANGED <<products, stock, call, substitutes, hashSeed>>

NextNormalise == Normalise \/ NormaliseAgain

SpecNormalise == InitNormalise /\ [][NextNormalise]_vars

(***************************************************************************)
(* _get_yeast_equivalents on pairs of strain codes                         *)
(***************************************************************************)

\* every code of YEAST_EQUIVALENTS, key or member
TableCodes ==
    {YEAST_EQUIVALENTS[k][1] : k \in 1..Len(YEAST_EQUIVALENTS)} \cup
    UNION {{YEAST_EQUIVALENTS[k][2][j] : j \in 1..Len(YEAST_EQUIVALENTS[k][2])} :
              k \in 1..Len(YEAST_EQUIVALENTS)}

\* codes of no group, and other spellings of codes of the table
OtherCodes == {Chars("k-97"), Chars("w34"), Chars("wlp002"), Chars("US-05"), Chars("w 34/70")}

StrainCodes == TableCodes \cup OtherCodes

InitEquivalents ==
    /\ products = <<>>
    /\ stock = <<>>
    /\ call \in [code_a : StrainCodes, code_b : StrainCodes]
    /\ substitutes = <<>>
    /\ result = None
    /\ hashSeed = 0

\* _get_yeast_equivalents on each code of the pair
GetEquivalents ==
    /\ result = None
    /\ result' = [of_a |-> _get_yeast_equivalents(call.code_a),
                  of_b |-> _get_yeast_equivalents(call.code_b)]
    /\ UNCHANGED <<products, stock, call, substitutes, hashSeed>>

SpecEquivalents == InitEquivalents /\ [][GetEquivalents]_vars

(***************************************************************************)
(* create_recipe_with_ingredients: the loop over the ingredients           *)
(***************************************************************************)

MaxIngredients == 2
MaxImportCatalog == 3

\* one entry of the ingredients argument, with its BeerSmith metadata
Ingredient(name, supplier, lab, product_id, color) == [name |-> Chars(name), supplier |-> Chars(supplier), lab |-> Chars(lab), product_id |-> Chars(product_id), color |-> color]

ImportIngredients ==
    {Ingredient("Cascade", "", "", "", None),
     Ingredient("Safale US-05", "", "", "", None),
     Ingredient("Pale Ale", "BESTMALZ", "", "", None),
     Ingredient("Crystal 60L", "", "", "", Num(56)),
     Ingredient("Saflager S-23", "", "", "", None)}

IngredientLists ==
    UNION {[1..n -> ImportIngredients] : n \in 0..MaxIngredients}

ImportCatalogs == {c \in Catalogs : Len(c) <= MaxImportCatalog}

\* min_match_score as the caller passes it
ImportScores == {Num(30), DEFAULT_MIN_SCORE}

\* the recipe is created and products and stock are fetched; the loop has not begun
InitImport ==
    /\ products \in ImportCatalogs
    /\ stock = StockFor(products)
    /\ call \in [ingredients : IngredientLists, use_substitutes : BOOLEAN,
                 min_match_score : ImportScores]
    /\ substitutes = None
    /\ result = [done |-> 0, recipe |-> <<>>, added_ingredients |-> <<>>,
                 substituted_ingredients |-> <<>>, not_found_ingredients |-> <<>>]
    /\ hashSeed = 0

\* ingredient_info of an ingredient that is put into the recipe
IngredientInfo(ing, best_match) ==
    [requested |-> ing.name, matched |-> best_match.product_name, amount |-> 1,
     match_type |-> best_match.match_type, match_score |-> best_match.score]
    @@ (IF best_match.match_type = "color" /\ best_match.details # None
        THEN [color_match |-> best_match.details] ELSE <<>>)
    @@ (IF "stock_amount" \in DOMAIN best_match
        THEN [stock_available |-> best_match.stock_amount] ELSE <<>>)

AlternativeInfo(alt) ==
    [name |-> alt.product_name, score |-> alt.score, match_type |-> alt.match_type]

\* the lists after the loop body has run for ing with match_result
Imported(lists, ing, match_result, use_substitutes) ==
    IF match_result.found
    THEN LET best_match == match_result.best_match
             is_exact == match_result.is_exact
             should_use == is_exact \/ use_substitutes
             ingredient_info == IngredientInfo(ing, best_match)
             alternatives == Slice(match_result.alternatives, 1, 3)
         IN  IF should_use
             THEN [lists EXCEPT
                      !.recipe = Append(@, [product_id |-> best_match.product_id,
                                            amount |-> 1]),
                      !.added_ingredients =
                          IF is_exact THEN Append(@, ingredient_info) ELSE @,
                      !.substituted_ingredients =
                          IF is_exact THEN @
                          ELSE Append(@, ingredient_info @@
                                         [alternatives |->
                                             [k \in 1..Len(alternatives) |->
                                                 AlternativeInfo(alternatives[k])]])]
             ELSE [lists EXCEPT
                      !.not_found_ingredients =
                          Append(@, [name |-> ing.name,
                                     suggested_substitute |-> best_match.product_name,
                                     match_score |-> best_match.score,
                                     match_type |-> best_match.match_type])]
    ELSE [lists EXCEPT
             !.not_found_ingredients =
                 Append(@, [name |-> ing.name, suggested_substitute |-> None])]

\* one pass of the loop: the next ingredient is matched and filed; substitutes holds
\* match_result of the pass
ImportIngredient ==
    /\ result.done < Len(call.ingredients)
    /\ LET ing == call.ingredients[result.done + 1]
       IN  /\ substitutes' = _smart_match_ingredient(ing.name, products, stock,
                                                     call.min_match_score, ing.supplier,
                                                     <<>>, ing.lab, ing.product_id, ing.color)
           /\ result' = [Imported(result, ing, substitutes', call.use_substitutes)
                            EXCEPT !.done = @ + 1]
    /\ UNCHANGED <<products, stock, call, hashSeed>>

SpecImport == InitImport /\ [][ImportIngredient]_vars

(***************************************************************************)
(* Properties                                                              *)
(***************************************************************************)
\* a call has been answered
Answered == call # None /\ result # None

\* a product name equals the ingredient name of the call, ignoring case
SameName(product_name) == lower(product_name) = lower(call.ingredient_name)

\* the candidates an answer returns as usable: best_match and the alternatives
Entries(r) ==
    (IF r.found THEN {r.best_match} ELSE {}) \cup
    {r.alternatives[i] : i \in 1..Len(r.alternatives)}

\* the scored candidates below the threshold of the call
SubThreshold ==
    {i \in 1..Len(substitutes) :
        RLt(Num(0), substitutes[i].score) /\ RLt(substitutes[i].score, call.min_score)}

\* C1 as stated: whenever a call is answered and some product's name equals the
\* ingredient name ignoring case, the answer has found = TRUE and its best_match is
\* such a product, with score 100 and match_type "exact", on every path.
ExactMatchDominance ==
    (Answered /\ \E i \in 1..Len(products) : SameName(products[i].name))
        => /\ result.found
           /\ SameName(result.best_match.product_name)
           /\ result.best_match.score = Num(100)
           /\ result.best_match.match_type = "exact"

\* C1: a product whose name is the ingredient name is the best match, but as
\* "yeast_id" and not as "exact"
ExactNameAsYeastId ==
    /\ Answered
    /\ result.found
    /\ SameName(result.best_match.product_name)
    /\ result.best_match.match_type = "yeast_id"

\* the brand of the query: of the supplier hint when there is one, else of the name
QueryBrand ==
    IF call.supplier # <<>> THEN Or(extract_maltster(call.supplier), lower(call.supplier))
    ELSE extract_maltster(call.ingredient_name)

\* the query and the candidate both carry a brand, and the brands differ
BrandsDiffer(m) ==
    /\ QueryBrand # None
    /\ extract_maltster(m.product_name) # None
    /\ QueryBrand # extract_maltster(m.product_name)

\* the two ways a candidate of another brand may be returned
GatedAs(m) ==
    \/ m.match_type = "different_maltster" /\ RLe(m.score, Num(30))
    \/ m.match_type = "exact" /\ m.score = Num(100) /\ SameName(m.product_name)

\* the call is scored on the malt and generic paths, not by the yeast matcher
OnMaltPath ==
    call.lab = <<>> /\ call.product_id = <<>> /\ ~is_yeast_product(call.ingredient_name)

\* C2 as stated: on every path, a scored candidate whose brand differs from the
\* query's brand is returned only as different_maltster with score <= 30 or, its
\* name being the query's name ignoring case, as exact with score 100.
BrandGating ==
    Answered => \A i \in 1..Len(substitutes) :
                    BrandsDiffer(substitutes[i]) => GatedAs(substitutes[i])

\* C2 amended: when the call is scored on the malt and generic paths (no lab or
\* product_id hint, the name not a yeast's), a scored candidate whose brand differs
\* from the query's brand is returned only as different_maltster with score <= 30
\* or, its name being the query's name ignoring case, as exact with score 100; so
\* never as contains, partial, color or word_overlap.
BrandGatingOnMaltPath ==
    (Answered /\ OnMaltPath)
        => \A i \in 1..Len(substitutes) :
               BrandsDiffer(substitutes[i]) => GatedAs(substitutes[i])

\* C2: "BEST Pale Ale" with the supplier hint BESTMALZ is answered with a candidate
\* of another brand, scored 30 as different_maltster
OtherBrandSuggested ==
    /\ Answered
    /\ call.ingredient_name = Chars("BEST Pale Ale")
    /\ call.supplier = Chars("BESTMALZ")
    /\ \E i \in 1..Len(substitutes) :
           /\ BrandsDiffer(substitutes[i])
           /\ substitutes[i].match_type = "different_maltster"
           /\ substitutes[i].score = Num(30)

\* the call with product_id "US-05" against the catalog [Safale US-05, WLP001
\* California Ale] is answered
YeastCase ==
    /\ Answered
    /\ call.product_id = Chars("US-05")
    /\ products = SubSeq(ProductPool, 15, 16)

\* Safale US-05 is the best match, with score 100 as yeast_id
SafaleIsBest ==
    /\ result.found
    /\ result.best_match.product_name = Chars("Safale US-05")
    /\ result.best_match.score = Num(100)
    /\ result.best_match.match_type = "yeast_id"

\* a candidate is WLP001 California Ale scored 40 as equivalent
IsWlp001Equivalent(m) ==
    /\ m.product_name = Chars("WLP001 California Ale")
    /\ m.match_type = "equivalent"
    /\ m.score = Num(40)

InvalidInputNotFound ==
    (Answered /\ (call.ingredient_name = <<>> \/ products = <<>>))
        => /\ result.found = FALSE
           /\ result.best_match = None
           /\ result.alternatives = <<>>
           /\ "suggestions" \in DOMAIN result
           /\ result.suggestions = <<>>

\* C4: the empty ingredient name is answered with a match
EmptyNameFound ==
    /\ Answered
    /\ call.ingredient_name = <<>>
    /\ result.found
    /\ result.best_match.match_type = "contains"

\* the distance from the target to the nearest edge of the band of the call
EdgeDistance ==
    IF RLt(call.target_ebc, call.product_ebc_min)
    THEN RSub(call.product_ebc_min, call.target_ebc)
    ELSE RSub(call.target_ebc, call.product_ebc_max)

\* C5: for a band with min <= max and a tolerance > 0, the score is 100 when the
\* target is within the band; else, d being the distance from the target to the
\* nearest edge, it is 100 - 50*d/tolerance when d <= tolerance and 0 when
\* d > tolerance; it is never strictly between 0 and 50; for the band [140,160] and
\* tolerance 30 the target 190 scores 50 and the target 221 scores 0.
ColorMatchFunction ==
    (result # None /\ RLe(call.product_ebc_min, call.product_ebc_max)
                   /\ RLt(Num(0), call.tolerance))
        => /\ IF RLe(call.product_ebc_min, call.target_ebc)
                 /\ RLe(call.target_ebc, call.product_ebc_max)
              THEN result = Num(100)
              ELSE IF RLe(EdgeDistance, call.tolerance)
              THEN RMul(result, call.tolerance)
                       = RSub(RMul(Num(100), call.tolerance), RMul(Num(50), EdgeDistance))
              ELSE result = Num(0)
           /\ ~(RLt(Num(0), result) /\ RLt(result, Num(50)))
           /\ EdgeDistance = call.tolerance => result = Num(50)
           /\ (/\ call.product_ebc_min = Num(140)
               /\ call.product_ebc_max = Num(160)
               /\ call.tolerance = Num(30))
                  => /\ call.target_ebc = Num(190) => result = Num(50)
                     /\ call.target_ebc = Num(221) => result = Num(0)

\* C5: the band [140,160] with tolerance 30 and target 190 has scored 50
ColorAtToleranceEdge ==
    /\ call.product_ebc_min = Num(140)
    /\ call.product_ebc_max = Num(160)
    /\ call.tolerance = Num(30)
    /\ call.target_ebc = Num(190)
    /\ result = Num(50)

\* C6: for the query, catalog and hints of an answered call and any two
\* thresholds m1 <= m2, the candidates returned as best_match or alternatives
\* under min_score = m2 are among those returned under min_score = m1.
ThresholdConsistency ==
    Answered
        => \A m1 \in MinScores : \A m2 \in MinScores :
               RLe(m1, m2)
                   => Entries(MatchResult(call.ingredient_name, substitutes, m2))
                          \subseteq Entries(MatchResult(call.ingredient_name, substitutes, m1))

\* C6: a call whose candidates under min_score 90 are some but not all of its
\* candidates under min_score 30
ThresholdDropsEntries ==
    /\ Answered
    /\ Entries(MatchResult(call.ingredient_name, substitutes, Num(90))) # {}
    /\ Entries(MatchResult(call.ingredient_name, substitutes, Num(90)))
           # Entries(MatchResult(call.ingredient_name, substitutes, Num(30)))

\* C7 as stated: a call repeated with the same arguments against the same catalog
\* and stock is answered as it was answered before.
Determinism ==
    [][(/\ Answered
        /\ call' = call
        /\ products' = products
        /\ stock' = stock
        /\ result' # None) => result' = result]_vars

\* C7: an answer whose matching_words are not in the order the hash seed 0 gives
OrderFollowsHashSeed ==
    /\ Answered
    /\ result.found
    /\ result.best_match.match_type = "word_overlap"
    /\ Len(result.best_match.details.matching_words) = 3
    /\ result.best_match.details.matching_words
           # ListOfSet({result.best_match.details.matching_words[i] : i \in 1..3}, 0)

\* C8: an answer has found = FALSE exactly when no scored candidate reaches
\* min_score; it then has no best_match and no alternatives, its suggestions are
\* non-empty exactly when some candidate scores strictly between 0 and min_score,
\* and they are such candidates only, highest score first.
NotFoundOutcome ==
    Answered
        => /\ (result.found = FALSE)
                  <=> ~\E i \in 1..Len(substitutes) : RLe(call.min_score, substitutes[i].score)
           /\ result.found = FALSE
                  => /\ result.best_match = None
                     /\ result.alternatives = <<>>
                     /\ (result.suggestions # <<>>) <=> (SubThreshold # {})
                     /\ \A j \in 1..Len(result.suggestions) :
                            \E i \in SubThreshold : substitutes[i] = result.suggestions[j]
                     /\ \A j \in 1..(Len(result.suggestions) - 1) :
                            RLe(result.suggestions[j + 1].score, result.suggestions[j].score)

\* C8: a not-found answer with two suggestions of different scores
NotFoundWithSuggestions ==
    /\ Answered
    /\ result.found = FALSE
    /\ Len(result.suggestions) = 2
    /\ RLt(result.suggestions[2].score, result.suggestions[1].score)

Ranking ==
    (Answered /\ result.found)
        => /\ \A i \in 1..Len(substitutes) : RLe(substitutes[i].score, result.best_match.score)
           /\ RLe(call.min_score, result.best_match.score)
           /\ Len(result.alternatives) <= 4
           /\ Len(result.alternatives) + 1 <=
                  Cardinality({i \in 1..Len(substitutes) :
                                  RLe(call.min_score, substitutes[i].score)})
           /\ \/ Len(result.alternatives) = 4
              \/ Len(result.alternatives) + 1 =
                     Cardinality({i \in 1..Len(substitutes) :
                                     RLe(call.min_score, substitutes[i].score)})
           /\ <<result.best_match>> \o result.alternatives
                  = SubSeq(substitutes, 1, 1 + Len(result.alternatives))
           /\ \A j \in 1..Len(result.alternatives) :
                  /\ RLe(call.min_score, result.alternatives[j].score)
                  /\ RLe(result.alternatives[j].score, result.best_match.score)
                  /\ result.alternatives[j].product_id # result.best_match.product_id
           /\ \A j \in 1..(Len(result.alternatives) - 1) :
                  RLe(result.alternatives[j + 1].score, result.alternatives[j].score)

\* C10: a found answer with four alternatives and a sixth candidate above the
\* threshold left out
FiveOfSixRanked ==
    /\ Answered
    /\ result.found
    /\ Len(result.alternatives) = 4
    /\ Cardinality({i \in 1..Len(substitutes) :
                       RLe(call.min_score, substitutes[i].score)}) = 6

\* C11: in every answer with found = TRUE, requires_confirmation is TRUE exactly
\* when the match_type of best_match is "equivalent" or "different_maltster"; it is
\* FALSE for exact, yeast_id, lab_name, fuzzy_name, color, contains, partial and
\* word_overlap.
RequiresConfirmationRule ==
    (Answered /\ result.found)
        => /\ result.requires_confirmation
                  <=> result.best_match.match_type \in {"equivalent", "different_maltster"}
           /\ result.best_match.match_type
                  \in {"exact", "yeast_id", "lab_name", "fuzzy_name", "color", "contains",
                       "partial", "word_overlap"}
                  => result.requires_confirmation = FALSE

\* C11: a candidate of another maltster is the best match, and asks for confirmation
OtherMaltsterNeedsConfirmation ==
    /\ Answered
    /\ result.found
    /\ result.best_match.match_type = "different_maltster"
    /\ result.requires_confirmation

\* C12 as stated: every product is in the scored list at most once, and the score it
\* carries is the highest of the rules that apply to it: on the malt and generic
\* paths a candidate whose name is the query's name, which the exact rule scores
\* 100, carries 100 also when the colour rule applies to it.
DedupHighestScore ==
    Answered
        => /\ \A i \in 1..Len(substitutes) : \A j \in 1..Len(substitutes) :
                  substitutes[i].product_id = substitutes[j].product_id => i = j
           /\ OnMaltPath
                  => \A i \in 1..Len(substitutes) :
                         SameName(substitutes[i].product_name)
                             => substitutes[i].score = Num(100)

\* C12: a candidate whose name is the query's name carries a colour score below 100
ExactNameScoredByColor ==
    /\ Answered
    /\ \E i \in 1..Len(substitutes) :
           /\ SameName(substitutes[i].product_name)
           /\ substitutes[i].match_type = "color"
           /\ RLt(substitutes[i].score, Num(100))

\* C13 as stated: every colour band the parser returns for a text, or that is built
\* from a colour hint, has ebc_min <= ebc_mid <= ebc_max, and the three are equal
\* for a Lovibond point, a single EBC value and a hint.
ColorBandInvariant ==
    result # None
        => /\ RLe(result.ebc_min, result.ebc_mid)
           /\ RLe(result.ebc_mid, result.ebc_max)
           /\ result.source \in {"lovibond", "ebc_single", "beersmith"}
                  => result.ebc_min = result.ebc_mid /\ result.ebc_mid = result.ebc_max

\* C13: the parser has returned a band whose ebc_min is above its ebc_max
InvertedBand ==
    /\ result # None
    /\ result.source = "ebc_range"
    /\ RLt(result.ebc_max, result.ebc_min)

\* the match types a candidate may carry
MatchTypes ==
    {"exact", "yeast_id", "lab_name", "fuzzy_name", "color", "contains", "partial",
     "word_overlap", "equivalent", "different_maltster"}

\* a candidate with one of the match types and a score above 0 and at most 100
WellFormed(m) ==
    /\ m.match_type \in MatchTypes
    /\ RLt(Num(0), m.score)
    /\ RLe(m.score, Num(100))

\* C14: every candidate of the scored list, and so best_match and every
\* alternative and suggestion of the answer, carries one of the ten match types
\* and a score in [0,100] that is not 0.
WellFormedCandidates ==
    Answered
        => /\ \A i \in 1..Len(substitutes) : WellFormed(substitutes[i])
           /\ result.found => WellFormed(result.best_match)
           /\ \A j \in 1..Len(result.alternatives) : WellFormed(result.alternatives[j])
           /\ "suggestions" \in DOMAIN result
                  => \A j \in 1..Len(result.suggestions) : WellFormed(result.suggestions[j])

\* C14: an answer with a best match and with candidates below the threshold, one
\* scored by word overlap and one of another maltster
CandidatesOfSeveralTypes ==
    /\ Answered
    /\ result.found
    /\ SubThreshold # {}
    /\ \E i \in 1..Len(substitutes) : substitutes[i].match_type = "word_overlap"
    /\ \E i \in 1..Len(substitutes) : substitutes[i].match_type = "different_maltster"

\* what the call of caller c returns when it runs alone
Alone(c) ==
    _smart_match_ingredient(call[c].ingredient_name, products, stock, call[c].min_score,
                            call[c].supplier, <<>>, call[c].lab, call[c].product_id,
                            call[c].color_lovibond)

\* C15: calls running at the same time, in any interleaving of their loop passes,
\* each return what they return when run alone, and no step of any call changes
\* the caller's catalog or stock list
NoSharedMutableState ==
    /\ [](\A c \in Callers : substitutes[c].pc = "done" => result[c] = Alone(c))
    /\ [][products' = products /\ stock' = stock]_vars

\* one call has returned a match while another, entered with a different
\* ingredient, is inside its Level 4 loop with matches of its own
CallsInterleaved ==
    \E c \in Callers, d \in Callers :
        /\ substitutes[c].pc = "done"
        /\ result[c].found
        /\ substitutes[d].pc = "equivalents"
        /\ substitutes[d].matches # <<>>
        /\ call[c].ingredient_name # call[d].ingredient_name

\* both conversions have run
RoundTripDone == result # None /\ "lovibond" \in DOMAIN result

Matched == result # None /\ "matches" \in DOMAIN result

\* C17: match_string returns at most limit pairs, each with a confidence of at
\* least the threshold and a match taken from the candidates, in non-increasing
\* order of confidence, and nothing when there are no candidates or the query is
\* empty or only whitespace
MatchStringShape ==
    Matched =>
        LET r == result.matches
        IN  /\ Len(r) <= call.limit
            /\ \A i \in 1..Len(r) :
                   /\ RLe(call.threshold, r[i][2])
                   /\ \E j \in 1..Len(call.candidates) : call.candidates[j] = r[i][1]
            /\ \A i \in 1..(Len(r) - 1) : RLe(r[i + 1][2], r[i][2])
            /\ (call.candidates = <<>> \/ \A k \in 1..Len(call.query) : IsSpace(call.query[k]))
                   => r = <<>>

\* the limit cut the list, the threshold dropped a candidate that was left, and
\* the pairs returned differ in confidence
LimitAndThresholdApplied ==
    /\ Matched
    /\ Len(call.candidates) > call.limit
    /\ Len(result.matches) >= 2
    /\ Len(result.matches) < call.limit
    /\ result.matches[1][2] # result.matches[Len(result.matches)][2]

\* the canonical names of the groups that list the text among their aliases
GroupsListing(text) ==
    {INGREDIENT_ALIASES[g].canonical : g \in AliasGroups(INGREDIENT_ALIASES, text)}

\* C18: with the name lowercased and trimmed, normalise_ingredient_name returns the
\* name itself when it is a canonical key, the key of the group when it is one of
\* the group's aliases ("Safale US-05" and "US05" give "us-05"), and the
\* lowercased trimmed name otherwise; applied to its own result it returns it
NormaliseMapping ==
    (result # None /\ "once" \in DOMAIN result) =>
        LET trimmed == StrStrip(StrLower(call.name))
        IN  /\ trimmed \in CanonicalNames => result.once = trimmed
            /\ trimmed \notin CanonicalNames =>
                   \A key \in GroupsListing(trimmed) : result.once = key
            /\ (trimmed \notin CanonicalNames /\ GroupsListing(trimmed) = {})
                   => result.once = trimmed
            /\ call.name \in {Chars("Safale US-05"), Chars("US05")}
                   => result.once = Chars("us-05")
            /\ "twice" \in DOMAIN result => result.twice = result.once

\* an alias written in capitals with blanks around it was mapped to its group's
\* key, and the key was normalised again
AliasInCapitalsNormalisedTwice ==
    /\ result # None
    /\ "twice" \in DOMAIN result
    /\ call.name = Chars("  ") \o StrUpper(Chars("wyeast 1056")) \o Chars("  ")
    /\ result.once = Chars("california ale")

\* the call is scored by the name rules: on the malt and generic paths, and not
\* by colour
OnGenericPath ==
    /\ OnMaltPath
    /\ ~(/\ is_crystal_malt(call.ingredient_name)
         /\ IngredientColor(call.ingredient_name, call.color_lovibond) # None)

\* the product carries the brand of the query, and its name holds the query's
\* name, ignoring case, without being it
SameBrandContainer(product) ==
    /\ QueryBrand # None
    /\ extract_maltster(product.name) = QueryBrand
    /\ ~SameName(product.name)
    /\ StrIn(lower(call.ingredient_name), lower(product.name))

\* C19: on the generic path, a candidate whose name holds the query's name and
\* whose canonical brand is the query's, however either spells it, is returned
\* with score 85 as contains
SameBrandContainment ==
    (Answered /\ OnGenericPath)
        => \A i \in 1..Len(products) :
               SameBrandContainer(products[i])
                   => \E k \in 1..Len(substitutes) :
                          /\ substitutes[k].product_id = products[i].id
                          /\ substitutes[k].score = Num(85)
                          /\ substitutes[k].match_type = "contains"

\* "Pale Ale" of the supplier BESTMALZ against a catalog with "BEST Pale Ale": the
\* product, of the same brand under its alias, is not among the candidates
SameBrandUnderAliasDropped ==
    /\ Answered
    /\ call.ingredient_name = Chars("Pale Ale")
    /\ call.supplier = Chars("BESTMALZ")
    /\ \E i \in 1..Len(products) :
           /\ products[i].name = Chars("BEST Pale Ale")
           /\ SameBrandContainer(products[i])
           /\ \A k \in 1..Len(substitutes) : substitutes[k].product_id # products[i].id

\* the tokens of a lowered name without the filler words and the words of its brand
TokensOf(name_lower, brand) ==
    (WordsDashSlash(name_lower) \ malt_filler) \ (IF brand # None THEN SplitSet(brand) ELSE {})

\* the score and match_type the four rules give the product when the
\* candidate-in-query rule scores partial_score: None when the candidate is dropped
RuleFor(product, partial_score) ==
    LET q == lower(call.ingredient_name)
        p == lower(product.name)
        qw == TokensOf(q, QueryBrand)
        pw == TokensOf(p, extract_maltster(product.name))
        shared == Cardinality(qw \cap pw)
        all == Cardinality(qw \cup pw)
    IN  IF q = p THEN <<Num(100), "exact">>
        ELSE IF StrIn(q, p) THEN <<Num(85), "contains">>
        ELSE IF StrIn(p, q) THEN <<Num(partial_score), "partial">>
        ELSE IF shared > 0 /\ RLe(Num(30), RMul(Rat(shared, all), Num(70)))
        THEN <<RMul(Rat(shared, all), Num(70)), "word_overlap">>
        ELSE None

\* what the candidates list holds for the product: its score and match_type, once
ScoredAs(product) ==
    {<<substitutes[k].score, substitutes[k].match_type>> :
        k \in {k \in 1..Len(substitutes) : substitutes[k].product_id = product.id}}

\* C20: on the generic path a brand-compatible candidate is scored by exactly one
\* rule, the first that applies: names equal ignoring case, 100; query name in
\* candidate name, 85; candidate name in query name, 80; else the share of common
\* tokens scaled to 0-70, the candidate dropped below 30
GenericFuzzyScoring ==
    (Answered /\ OnGenericPath)
        => \A i \in 1..Len(products) :
               (QueryBrand = None \/ extract_maltster(products[i].name) \in {None, QueryBrand})
                   => ScoredAs(products[i]) =
                          IF RuleFor(products[i], 80) = None THEN {}
                          ELSE {RuleFor(products[i], 80)}

\* a product whose name is part of the query's name is a candidate with score 75
\* as partial
PartialScoredBelowEighty ==
    /\ Answered
    /\ OnGenericPath
    /\ \E i \in 1..Len(products) :
           /\ StrIn(lower(products[i].name), lower(call.ingredient_name))
           /\ ScoredAs(products[i]) = {<<Num(75), "partial">>}

\* the call is scored by colour: on the malt path, the query crystal-classified
\* and with a colour band
OnCrystalPath ==
    /\ OnMaltPath
    /\ is_crystal_malt(call.ingredient_name)
    /\ IngredientColor(call.ingredient_name, call.color_lovibond) # None

\* the colour band of a product: of its name, else of its description
ProductColor(product) ==
    Or(parse_malt_color(product.name), parse_malt_color(product.description))

\* the product is brand-compatible with the query, crystal-classified and has a
\* colour band
CrystalCandidate(product) ==
    /\ QueryBrand = None \/ extract_maltster(product.name) \in {None, QueryBrand}
    /\ is_crystal_malt(product.name)
    /\ ProductColor(product) # None

\* the Color Match score of the product against the query's target
ColorMatch(product) ==
    _calculate_color_match_score(
        IngredientColor(call.ingredient_name, call.color_lovibond).ebc_mid,
        ProductColor(product).ebc_min, ProductColor(product).ebc_max, DEFAULT_TOLERANCE_EBC)

\* C21: on the crystal path every brand-compatible crystal candidate with a colour
\* band is scored by the Color Match function: returned with that score as color
\* when it is positive, and not returned when its band lies beyond the tolerance
CrystalPathScoring ==
    (Answered /\ OnCrystalPath)
        => \A i \in 1..Len(products) :
               CrystalCandidate(products[i])
                   => ScoredAs(products[i]) =
                          IF RLt(Num(0), ColorMatch(products[i]))
                          THEN {<<ColorMatch(products[i]), "color">>}
                          ELSE {}

\* "Crystal" with the colour hint 10 L: "Crystal 60L", whose band lies beyond the
\* tolerance, is a candidate with score 85 as contains
BeyondToleranceReturnedByName ==
    /\ Answered
    /\ OnCrystalPath
    /\ \E i \in 1..Len(products) :
           /\ CrystalCandidate(products[i])
           /\ ColorMatch(products[i]) = Num(0)
           /\ ScoredAs(products[i]) = {<<Num(85), "contains">>}

\* the call is scored by the yeast matcher
OnYeastPathCall == call.lab # <<>> \/ call.product_id # <<>> \/ is_yeast_product(call.ingredient_name)

\* the yeast identity of the query
QueryYeast == IngredientYeast(call.ingredient_name, call.lab, call.product_id)

\* the normalized codes of the equivalence group of the query's code
QueryEquivalents ==
    IF QueryYeast = None \/ QueryYeast.normalized = <<>> THEN {}
    ELSE {_normalize_yeast_id(_get_yeast_equivalents(QueryYeast.normalized)[j]) :
             j \in 1..Len(_get_yeast_equivalents(QueryYeast.normalized))}

\* the share of common words among all words of the two names, Level 3's measure
WordShare(product) ==
    LET q == WordsDashSlash(lower(call.ingredient_name)) \ fuzzy_name_filler
        p == WordsDashSlash(lower(product.name)) \ fuzzy_name_filler
    IN  IF q \cap p = {} THEN Num(0) ELSE Rat(Cardinality(q \cap p), Cardinality(q \cup p))

\* the words the two names share, Level 2's measure
SharedLabWords(product) ==
    (WordsDash(lower(call.ingredient_name)) \ lab_name_filler)
        \cap (WordsDash(lower(product.name)) \ lab_name_filler)

\* the outcome of the first level that applies to the product: its score and
\* match_type, None when no level applies
LevelFor(product) ==
    LET code == extract_yeast_id(product.name)
        coded == QueryYeast # None /\ QueryYeast.normalized # <<>> /\ code # None
    IN  IF coded /\ QueryYeast.normalized = code.normalized THEN <<Num(100), "yeast_id">>
        ELSE IF /\ QueryYeast # None
                /\ code # None
                /\ QueryYeast.lab = code.lab
                /\ Cardinality(SharedLabWords(product)) >= 2
        THEN <<Num(80), "lab_name">>
        ELSE IF RLe(Rat(6, 10), WordShare(product))
        THEN <<RMul(RMul(WordShare(product), Num(100)), Rat(7, 10)), "fuzzy_name">>
        ELSE IF coded /\ code.normalized \in QueryEquivalents THEN <<Num(40), "equivalent">>
        ELSE None

HintedLab == _map_lab_name(call.lab)

\* Level 2 applies to the product when the query's lab is the hinted lab: the
\* product's code is not the query's, its lab is the hinted lab, and the names
\* share two words
Level2UnderHint(product) ==
    LET code == extract_yeast_id(product.name)
    IN  /\ code # None
        /\ ~(QueryYeast # None /\ QueryYeast.normalized = code.normalized)
        /\ code.lab = HintedLab
        /\ Cardinality(SharedLabWords(product)) >= 2

\* C23: whenever a lab hint is supplied, with or without a product_id hint, the
\* query's lab in the Level 2 comparison is the hint mapped through the lab alias
\* table, not a lab parsed from the name: the lab_name candidates are the yeast
\* products Level 2 applies to under the hinted lab, and they carry that lab
LabHintPrecedence ==
    (Answered /\ call.lab # <<>>)
        => \A i \in 1..Len(products) :
               is_yeast_product(products[i].name)
                   => /\ Level2UnderHint(products[i])
                          <=> ScoredAs(products[i]) = {<<Num(80), "lab_name">>}
                      /\ \A k \in 1..Len(substitutes) :
                             substitutes[k].match_type = "lab_name"
                                 => substitutes[k].details.lab = HintedLab

\* "Saflager S-23" with the lab hint "White Labs" and no product_id: the Fermentis
\* product "Saflager S-189" is a lab_name candidate under the lab parsed from the
\* name
LabParsedFromNameUsed ==
    /\ Answered
    /\ call.lab = Chars("White Labs")
    /\ call.product_id = <<>>
    /\ \E k \in 1..Len(substitutes) :
           /\ substitutes[k].match_type = "lab_name"
           /\ substitutes[k].details.lab = Chars("fermentis")
           /\ HintedLab = Chars("white_labs")

\* the match types of a direct match
DirectTypes == {"contains", "partial", "word_overlap", "color"}

\* the product is returned as a direct match
ReturnedDirect(product) == \E s \in ScoredAs(product) : s[2] \in DirectTypes

Parsed == call # None /\ "text" \in DOMAIN call /\ call.color_lovibond = None /\ result # None

\* the numbers a and b of the EBC range of the text, None when it holds no range
RangeOf(text) == FirstMatch(<<ReEbcThenRange(text), ReRangeThenEbc(text)>>)

\* the number of the Lovibond-point convention in the text, None when there is none
LovibondOf(text) ==
    FirstMatch(<<ReLovibondL(text), ReWordNumberNotEbc(text, Chars("CRYSTAL")),
                 ReWordNumberNotEbc(text, Chars("CARAMEL"))>>)

\* the band is a point built from the number n alone, read as Lovibond or as EBC
PointFrom(band, n) ==
    /\ band.source # "ebc_range"
    /\ band.ebc_min = band.ebc_max
    /\ band.lovibond = Num(IntOf(n)) \/ band.ebc_mid = Num(IntOf(n))

\* C25: the parser returns the first convention that matches, Lovibond point, then
\* EBC range, then EBC point; for a text that holds an EBC range a-b it never
\* returns a point band built from a alone or from b alone, and when the range
\* convention is the one that matches the band is ebc_min = a, ebc_max = b,
\* ebc_mid = (a+b)/2
ColorParserOrdering ==
    Parsed =>
        LET text == StrUpper(call.text)
            range == RangeOf(text)
        IN  /\ LovibondOf(text) # None => result.source = "lovibond"
            /\ (LovibondOf(text) = None /\ range # None) => result.source = "ebc_range"
            /\ (LovibondOf(text) = None /\ range = None) => result.source = "ebc_single"
            /\ range # None
                   => /\ ~PointFrom(result, range[1])
                      /\ ~PointFrom(result, range[2])
            /\ result.source = "ebc_range"
                   => /\ result.ebc_min = Num(IntOf(range[1]))
                      /\ result.ebc_max = Num(IntOf(range[2]))
                      /\ result.ebc_mid = Rat(IntOf(range[1]) + IntOf(range[2]), 2)

\* "Crystal 140-160 EBC" is parsed as the point 140 Lovibond
RangeReadAsLovibond ==
    /\ Parsed
    /\ call.text = Chars("Crystal 140-160 EBC")
    /\ result = LovibondColor(Num(140), Rat(36820, 100))

\* _get_yeast_equivalents has answered for a pair of codes
EquivalentsAnswered == result # None /\ "of_a" \in DOMAIN result

\* the normalized forms of the entries of a list of codes
NormalizedOf(codes) == {_normalize_yeast_id(codes[i]) : i \in 1..Len(codes)}

\* the normalized forms of the keys and members of YEAST_EQUIVALENTS
NormalizedTableCodes == {_normalize_yeast_id(code) : code \in TableCodes}

\* C26: for two codes a and b of YEAST_EQUIVALENTS the normalized b is among the
\* equivalents of a exactly when the normalized a is among the equivalents of b;
\* no returned entry normalizes to the normalized query; a code that is neither
\* key nor member gets the empty list
EquivalenceBidirectional ==
    EquivalentsAnswered =>
        LET a == _normalize_yeast_id(call.code_a)
            b == _normalize_yeast_id(call.code_b)
        IN  /\ (a \in NormalizedTableCodes /\ b \in NormalizedTableCodes)
                   => (b \in NormalizedOf(result.of_a) <=> a \in NormalizedOf(result.of_b))
            /\ a \notin NormalizedOf(result.of_a)
            /\ a \notin NormalizedTableCodes => result.of_a = <<>>

\* a member of a group and the key of a later group have each other as equivalents
MemberAndLaterKeyEquivalent ==
    /\ EquivalentsAnswered
    /\ call.code_a = Chars("s-189")
    /\ call.code_b = Chars("wlp830")
    /\ _normalize_yeast_id(call.code_b) \in NormalizedOf(result.of_a)
    /\ _normalize_yeast_id(call.code_a) \in NormalizedOf(result.of_b)

\* the match types of the yeast path
YeastTypes == {"yeast_id", "lab_name", "fuzzy_name", "equivalent"}

\* C27: a call with a lab hint or a product_id hint, or whose name is yeast-like,
\* gets only candidates of the four yeast match types, each a yeast-like product;
\* any other call gets no candidate of those types
Classification ==
    Answered =>
        \A i \in 1..Len(substitutes) :
            IF OnYeastPathCall
            THEN /\ substitutes[i].match_type \in YeastTypes
                 /\ is_yeast_product(substitutes[i].product_name)
            ELSE substitutes[i].match_type \notin YeastTypes

\* a call whose name is not yeast-like is classified as yeast by its hint alone and
\* gets a candidate, against a catalog that also holds a product that is not yeast-like
ClassifiedByHintAlone ==
    /\ Answered
    /\ ~is_yeast_product(call.ingredient_name)
    /\ call.product_id # <<>>
    /\ substitutes # <<>>
    /\ \E i \in 1..Len(products) : ~is_yeast_product(products[i].name)

\* a pass of the import loop has just filed an ingredient
ImportPass == "done" \in DOMAIN result /\ result.done > 0

\* C28: a pass of the import loop puts the matched product into the recipe only when
\* the MatchResult has found = TRUE and requires_confirmation = FALSE, whatever
\* use_substitutes and min_match_score are
AutoApplyPolicy ==
    [][Len(result'.recipe) > Len(result.recipe)
           => substitutes'.found /\ ~substitutes'.requires_confirmation]_vars

\* the pass put a best_match of type equivalent into the recipe
EquivalentAddedToRecipe ==
    /\ ImportPass
    /\ substitutes.found
    /\ substitutes.best_match.match_type = "equivalent"
    /\ substitutes.requires_confirmation
    /\ result.substituted_ingredients # <<>>
    /\ result.substituted_ingredients[Len(result.substituted_ingredients)].match_type
           = "equivalent"
    /\ result.recipe[Len(result.recipe)].product_id = substitutes.best_match.product_id

\* the query and the product both carry a strain code, and the normalized codes differ
DifferentStrain(product_name) ==
    /\ QueryYeast # None
    /\ QueryYeast.normalized # <<>>
    /\ extract_yeast_id(product_name) # None
    /\ extract_yeast_id(product_name).normalized # QueryYeast.normalized

\* C29 as stated: on the yeast path, at the default min_score, a candidate of another
\* strain than the query's is never best_match with requires_confirmation = FALSE
DifferentStrainsNeverDirect ==
    (/\ Answered
     /\ OnYeastPathCall
     /\ call.min_score = DEFAULT_MIN_SCORE
     /\ result.found
     /\ DifferentStrain(result.best_match.product_name))
        => result.requires_confirmation

\* "Saflager S-189" is the best match for "Saflager S-23", as lab_name with score 80
\* and without confirmation
OtherStrainOfTheLabIsBest ==
    /\ Answered
    /\ call.ingredient_name = Chars("Saflager S-23")
    /\ call.lab = <<>>
    /\ call.min_score = DEFAULT_MIN_SCORE
    /\ result.found
    /\ result.best_match.product_name = Chars("Saflager S-189")
    /\ result.best_match.match_type = "lab_name"
    /\ result.best_match.score = Num(80)
    /\ ~result.requires_confirmation

\* the product name holds the code verbatim, ignoring case, and the extractor
\* recognises a strain code in the name
CarriesCode(product, code) ==
    /\ code # <<>>
    /\ StrIn(StrLower(code), StrLower(product.name))
    /\ extract_yeast_id(product.name) # None

\* the codes YEAST_EQUIVALENTS lists as equivalents of the query's code
QueryGroupCodes ==
    IF QueryYeast = None \/ QueryYeast.normalized = <<>> THEN {}
    ELSE {_get_yeast_equivalents(QueryYeast.normalized)[j] :
             j \in 1..Len(_get_yeast_equivalents(QueryYeast.normalized))}

\* C30 as stated: a product whose name holds the product_id hint verbatim, ignoring
\* case, and yields a strain code has the normalized hint as its normalized code and
\* is returned with score 100 as yeast_id; and a product whose name holds, and
\* yields, a code that YEAST_EQUIVALENTS lists as equivalent of the query's code is
\* among the returned candidates
HintAndExtractorAgree ==
    (Answered /\ OnYeastPathCall) =>
        \A i \in 1..Len(products) :
            /\ CarriesCode(products[i], call.product_id)
                   => /\ extract_yeast_id(products[i].name).normalized
                             = _normalize_yeast_id(call.product_id)
                      /\ ScoredAs(products[i]) = {<<Num(100), "yeast_id">>}
            /\ (\E code \in QueryGroupCodes : CarriesCode(products[i], code))
                   => ScoredAs(products[i]) # {}

\* the hint "W-34/70" is in the name "Saflager W-34/70", whose extracted code is W-34:
\* the product is not returned
HintedProductNotReturned ==
    /\ Answered
    /\ call.product_id = Chars("W-34/70")
    /\ \E i \in 1..Len(products) :
           /\ products[i].name = Chars("Saflager W-34/70")
           /\ extract_yeast_id(products[i].name).normalized = Chars("w34")
           /\ _normalize_yeast_id(call.product_id) = Chars("w34/70")
           /\ ScoredAs(products[i]) = {}

====
